---- MODULE Spec2Model ----
(***************************************************************************)
(* A model of the recolon tree-walking interpreter: the runtime values     *)
(* (literal_value.rs), the chained scopes (environment.rs), the expression *)
(* evaluator (expr.rs) and the statement executor (interpreter.rs).        *)
(*                                                                         *)
(* Three specifications share the module:                                    *)
(*   EnvSpec  drives Environment::define / get / assign directly on a      *)
(*            growing chain of scopes;                                     *)
(*   Spec     runs a whole program, one top-level statement per step, as   *)
(*            Interpreter::interpret does;                                 *)
(*   FrontSpec scans a source text token by token (scanner.rs) and parses  *)
(*            the tokens statement by statement (parser.rs), as run does.  *)
(***************************************************************************)
EXTENDS Integers, Sequences, FiniteSets, TLC

VARIABLES
    envs,       \* EnvSpec: the scopes created so far (index = identity of the Rc)
    call,       \* EnvSpec: the last Environment call and what it returned
    scenario,   \* Spec: which program is run (chosen at start, never changed)
    program,    \* Spec: the statement list handed to Interpreter::interpret
    pc,         \* Spec: index of the next top-level statement
    heap,       \* Spec: the interpreter's scopes; heap[1] is the global scope
    out,        \* Spec: the lines printed by Log statements, oldest first
    status,     \* Spec: "ok", "err" (interpret returned Err), "panic" or "diverge"
    error,      \* Spec: the error text interpret returned ("" when none)
    value,      \* Spec: the value of the last top-level expression evaluated
    environment,\* Spec: the scope the Interpreter's environment field refers to
    line,       \* Spec: which line of the prompt is run (1 for a file)
    source,     \* FrontSpec: the text handed to Scanner::new, a sequence of chars
    scanner,    \* FrontSpec: the Scanner's fields and what scan_tokens returned
    parser      \* FrontSpec: the Parser's fields and what parse returned

vars == <<envs, call, scenario, program, pc, heap, out, status, error, value,
          environment, line, source, scanner, parser>>

envVars == <<envs, call>>
runVars == <<scenario, program, pc, heap, out, status, error, value, environment, line>>
frontVars == <<source, scanner, parser>>

(***************************************************************************)
(* Bounds of the model.                                                    *)
(***************************************************************************)
MaxEnvs == 2        \* EnvSpec: scopes created
MaxNum == 2         \* numbers a program's literals are drawn from: 0..MaxNum
MaxDepth == 2       \* nesting depth of blocks / branches around a statement
MaxFuel == 6        \* loop iterations and calls one run may take before it
                    \* is taken to run forever
MaxSrc == 3         \* FrontSpec: chars of a scanned text
MaxOps == 2         \* FrontSpec: operators of a parsed expression

(***************************************************************************)
(* Finite maps (HashMap<String, _>).                                       *)
(***************************************************************************)
EmptyMap == [k \in {} |-> 0]

MapPut(m, k, v) == [x \in (DOMAIN m) \cup {k} |-> IF x = k THEN v ELSE m[x]]

(***************************************************************************)
(* LiteralValue (literal_value.rs:9-19).                                   *)
(***************************************************************************)
Number(n) == [t |-> "Number", n |-> n]
StringValue(s) == [t |-> "String", s |-> s]
True == [t |-> "True"]
False == [t |-> "False"]
Nil == [t |-> "Nil"]
Array(elems) == [t |-> "Array", elems |-> elems]
\* fun is the closure built by FuncStmt: it owns copies of the parameter list
\* and of the body, and nothing else (interpreter.rs:147-150).  A native
\* function has native = TRUE and no body.
Callable(name, arity, params, body, native) ==
    [t |-> "Callable", name |-> name, arity |-> arity,
     params |-> params, body |-> body, native |-> native]
StructDef(name, fields) == [t |-> "StructDef", name |-> name, fields |-> fields]
StructInst(name, fields) == [t |-> "StructInst", name |-> name, fields |-> fields]

check_bool(b) == IF b THEN True ELSE False

(***************************************************************************)
(* Environment (environment.rs).  A scope is a record; `enclosing` is the  *)
(* index of the enclosing scope in the sequence of scopes, 0 for None.     *)
(***************************************************************************)
EnvironmentNew == [values |-> EmptyMap, constants |-> EmptyMap, enclosing |-> 0]

new_with_enclosing(enclosing) ==
    [values |-> EmptyMap, constants |-> EmptyMap, enclosing |-> enclosing]

\* A define that forgets to overwrite an existing binding.
define_keeps_old(env, name, val, is_const) ==
    [env EXCEPT !.values = IF name \in DOMAIN env.values THEN env.values
                           ELSE MapPut(env.values, name, val),
                !.constants = IF is_const THEN MapPut(env.constants, name, TRUE)
                              ELSE env.constants]

define(env, name, val, is_const) ==
    [env EXCEPT !.values = MapPut(env.values, name, val),
                !.constants = IF is_const THEN MapPut(env.constants, name, TRUE)
                              ELSE env.constants]

None == [some |-> FALSE]
Some(v) == [some |-> TRUE, v |-> v]

\* A get that looks in the scope itself only.
get_own_scope_only(h, e, name) ==
    IF name \in DOMAIN h[e].values THEN [some |-> TRUE, v |-> h[e].values[name]]
    ELSE [some |-> FALSE]

RECURSIVE get(_, _, _)
get(h, e, name) ==
    IF name \in DOMAIN h[e].values THEN Some(h[e].values[name])
    ELSE IF h[e].enclosing # 0 THEN get(h, h[e].enclosing, name)
    ELSE None

\* An assign without the constant check.
is_constant_unchecked(env, name) == FALSE

\* The constant check of assign (environment.rs:54-60).
is_constant(env, name) ==
    name \in DOMAIN env.constants /\ env.constants[name]

\* An assign that binds the name in the outermost scope when no scope of the
\* chain binds it.
RECURSIVE assign_or_define(_, _, _, _)
assign_or_define(h, e, name, val) ==
    IF is_constant(h[e], name) THEN [ok |-> FALSE, h |-> h]
    ELSE IF name \in DOMAIN h[e].values \/ h[e].enclosing = 0
         THEN [ok |-> TRUE,
               h |-> [h EXCEPT ![e].values = MapPut(h[e].values, name, val)]]
    ELSE assign_or_define(h, h[e].enclosing, name, val)

\* assign returns the success flag and the scopes after the call.
RECURSIVE assign(_, _, _, _)
assign(h, e, name, val) ==
    IF is_constant(h[e], name) THEN [ok |-> FALSE, h |-> h]
    ELSE IF name \in DOMAIN h[e].values
         THEN [ok |-> TRUE,
               h |-> [h EXCEPT ![e].values = MapPut(h[e].values, name, val)]]
    ELSE IF h[e].enclosing # 0 THEN assign(h, h[e].enclosing, name, val)
    ELSE [ok |-> FALSE, h |-> h]

(***************************************************************************)
(* Operations on values (literal_value.rs).                                *)
(***************************************************************************)
Digit(d) ==
    CASE d = 0 -> "0" [] d = 1 -> "1" [] d = 2 -> "2" [] d = 3 -> "3"
      [] d = 4 -> "4" [] d = 5 -> "5" [] d = 6 -> "6" [] d = 7 -> "7"
      [] d = 8 -> "8" [] d = 9 -> "9"

RECURSIVE NatToString(_)
NatToString(n) ==
    IF n < 10 THEN Digit(n) ELSE NatToString(n \div 10) \o Digit(n % 10)

\* f32::to_string of a whole number: no fraction is printed.
NumToString(n) == IF n < 0 THEN "-" \o NatToString(-n) ELSE NatToString(n)

\* The keys of a HashMap in the order one iteration visits them.  The order
\* is unspecified; `ord` is the order this run happens to use, a sequence
\* holding every field name once.
RECURSIVE KeysInOrder(_, _)
KeysInOrder(keys, ord) ==
    IF ord = <<>> THEN <<>>
    ELSE IF Head(ord) \in keys THEN <<Head(ord)>> \o KeysInOrder(keys, Tail(ord))
    ELSE KeysInOrder(keys, Tail(ord))

RECURSIVE JoinComma(_)
JoinComma(strs) ==
    IF strs = <<>> THEN ""
    ELSE IF Len(strs) = 1 THEN strs[1]
    ELSE strs[1] \o ", " \o JoinComma(Tail(strs))

Quoted(s) == "\"" \o s \o "\""

\* Expr::to_string (expr.rs:41-70).  FieldAccess, Index, MethodCall,
\* PreFunction and StructInst reach todo!(); formats says that none of them
\* is met.  The texts of Array, Assign, Call and Logical nodes are not
\* modelled (they print tokens with their line numbers, which the tree of
\* the model does not carry); no program of the model formats one.
RECURSIVE formats(_)
formats(expr) ==
    CASE expr.k \in {"Literal", "Variable"} -> TRUE
      [] expr.k = "Grouping" -> formats(expr.expression)
      [] expr.k = "Unary" -> formats(expr.right)
      [] expr.k = "Binary" -> formats(expr.left) /\ formats(expr.right)
      [] OTHER -> FALSE

RECURSIVE expr_to_string(_, _)
RECURSIVE to_string(_, _)
expr_to_string(expr, ord) ==
    CASE expr.k = "Literal" -> to_string(expr.value, ord)
      [] expr.k = "Variable" -> "(var " \o expr.name \o ")"
      [] expr.k = "Grouping" ->
            "(group " \o expr_to_string(expr.expression, ord) \o ")"
      [] expr.k = "Unary" ->
            "(" \o expr.lexeme \o " " \o expr_to_string(expr.right, ord) \o ")"
      [] expr.k = "Binary" ->
            "(" \o expr.lexeme \o " " \o expr_to_string(expr.left, ord) \o " "
                \o expr_to_string(expr.right, ord) \o ")"

to_string(v, ord) ==
    CASE v.t = "Number" -> NumToString(v.n)
      [] v.t = "String" -> v.s
      [] v.t = "True" -> "true"
      [] v.t = "False" -> "false"
      [] v.t = "Nil" -> "nil"
      [] v.t = "Callable" -> v.name \o "/" \o NumToString(v.arity)
      [] v.t = "StructDef" ->
            LET ks == KeysInOrder(DOMAIN v.fields, ord) IN
            v.name \o " {" \o
            JoinComma([i \in 1..Len(ks) |->
                Quoted(ks[i]) \o ": " \o expr_to_string(v.fields[ks[i]], ord)])
            \o "}"
      [] v.t = "StructInst" ->
            LET ks == KeysInOrder(DOMAIN v.fields, ord) IN
            "{ name: " \o Quoted(v.name) \o ", fields: {" \o
            JoinComma([i \in 1..Len(ks) |->
                Quoted(ks[i]) \o ": " \o to_string(v.fields[ks[i]], ord)])
            \o "} }"
      [] v.t = "Array" ->
            "[" \o JoinComma([i \in 1..Len(v.elems) |-> to_string(v.elems[i], ord)])
            \o "]"

\* to_type (literal_value.rs:87-97): the other variants reach todo!() and abort.
HasType(v) == v.t \in {"Number", "String", "True", "False", "Nil", "StructDef"}

to_type(v) ==
    CASE v.t = "Number" -> "Number"
      [] v.t = "String" -> "String"
      [] v.t \in {"True", "False"} -> "Bool"
      [] v.t = "Nil" -> "nil"
      [] v.t = "StructDef" -> "Struct"

\* is_falsy / is_truthy are defined for these variants; a Callable panics
\* and every other variant reaches todo!().
HasTruth(v) == v.t \in {"Number", "String", "True", "False", "Nil"}

is_falsy(v) ==
    CASE v.t = "Number" -> IF v.n = 0 THEN True ELSE False
      [] v.t = "String" -> IF Len(v.s) = 0 THEN True ELSE False
      [] v.t = "True" -> False
      [] v.t = "False" -> True
      [] v.t = "Nil" -> False

is_truthy(v) ==
    CASE v.t = "Number" -> IF v.n = 0 THEN False ELSE True
      [] v.t = "String" -> IF Len(v.s) = 0 THEN False ELSE True
      [] v.t = "True" -> True
      [] v.t = "False" -> False
      [] v.t = "Nil" -> False

\* impl PartialEq for LiteralValue (literal_value.rs:22-45).
eq(a, b) ==
    CASE a.t = "Number" /\ b.t = "Number" -> a.n = b.n
      [] a.t = "Callable" /\ b.t = "Callable" ->
            a.name = b.name /\ a.arity = b.arity
      [] a.t = "String" /\ b.t = "String" -> a.s = b.s
      [] a.t = "True" /\ b.t = "True" -> TRUE
      [] a.t = "False" /\ b.t = "False" -> TRUE
      [] a.t = "Nil" /\ b.t = "Nil" -> TRUE
      [] OTHER -> FALSE

(***************************************************************************)
(* The syntax tree (expr.rs:14-32, stmt.rs:6-38).  Operators carry the     *)
(* name of their TokenType and their lexeme.                               *)
(***************************************************************************)
Literal(v) == [k |-> "Literal", value |-> v]
Variable(name) == [k |-> "Variable", name |-> name]
Grouping(expression) == [k |-> "Grouping", expression |-> expression]
Assign(name, val) == [k |-> "Assign", name |-> name, value |-> val]
Lexeme(op) ==
    CASE op = "Plus" -> "+" [] op = "Minus" -> "-" [] op = "Star" -> "*"
      [] op = "Less" -> "<" [] op = "LessEqual" -> "<="
      [] op = "Greater" -> ">" [] op = "GreaterEqual" -> ">="
      [] op = "EqualEqual" -> "==" [] op = "BangEqual" -> "!="
      [] op = "Bang" -> "!" [] op = "And" -> "and" [] op = "Or" -> "or"
Binary(left, op, right) ==
    [k |-> "Binary", left |-> left, op |-> op, lexeme |-> Lexeme(op), right |-> right]
Unary(op, right) == [k |-> "Unary", op |-> op, lexeme |-> Lexeme(op), right |-> right]
Logical(left, op, right) ==
    [k |-> "Logical", left |-> left, op |-> op, lexeme |-> Lexeme(op), right |-> right]
Call(callee, arguments) == [k |-> "Call", callee |-> callee, arguments |-> arguments]
ArrayExpr(elements) == [k |-> "Array", elements |-> elements]
Index(array, index) == [k |-> "Index", array |-> array, index |-> index]
FieldAccess(object, field) == [k |-> "FieldAccess", object |-> object, field |-> field]
StructInstExpr(name, fields) == [k |-> "StructInst", name |-> name, fields |-> fields]
PreFunction(module, name, args) ==
    [k |-> "PreFunction", module |-> module, name |-> name, args |-> args]

Expression(expression) == [k |-> "Expression", expression |-> expression]
Log(expression) == [k |-> "Log", expression |-> expression]
Var(name, initializer) == [k |-> "Var", name |-> name, initializer |-> initializer]
Block(statements) == [k |-> "Block", statements |-> statements]
\* elifs is a sequence of <<predicate, body>> pairs; els is <<>> or <<stmt>>.
IfStmt(predicate, then, elifs, els) ==
    [k |-> "IfStmt", predicate |-> predicate, then |-> then, elifs |-> elifs, els |-> els]
WhileStmt(condition, body) == [k |-> "WhileStmt", condition |-> condition, body |-> body]
LoopStmt(body) == [k |-> "LoopStmt", body |-> body]
\* val is <<>> (no expression) or <<expr>>.
ReturnStmt(val) == [k |-> "ReturnStmt", value |-> val]
FuncStmt(name, parameters, body) ==
    [k |-> "FuncStmt", name |-> name, parameters |-> parameters, body |-> body]
StructStmt(name, params) == [k |-> "StructStmt", name |-> name, params |-> params]

(***************************************************************************)
(* Results.  An evaluation works on a machine m:                           *)
(*   m.h    the scopes alive (a scope is never freed in the model; one     *)
(*          that the program dropped is simply no longer referred to),     *)
(*   m.out  the lines printed so far,                                      *)
(*   m.fuel the loop iterations and calls left before the run is taken to  *)
(*          go on forever,                                                 *)
(*   m.ord  the iteration order of this run's HashMaps,                    *)
(*   m.now  what the system clock reads,                                   *)
(*   m.cur  the scope the running Interpreter's environment field refers   *)
(*          to.                                                            *)
(* st is "ok" (Ok(v)), "err" (Err(err)), "panic" (the process aborted) or  *)
(* "diverge" (the evaluation does not end).                                *)
(***************************************************************************)
Ok(v, m) == [st |-> "ok", v |-> v, err |-> "", m |-> m]
Err(msg, m) == [st |-> "err", v |-> Nil, err |-> msg, m |-> m]
Panic(m) == [st |-> "panic", v |-> Nil, err |-> "", m |-> m]
Diverge(m) == [st |-> "diverge", v |-> Nil, err |-> "", m |-> m]

\* `idx as usize` on an f32: a saturating cast, negative numbers become 0.
as_usize(n) == IF n < 0 THEN 0 ELSE n

\* A copy whose loop over the fields is forgotten: new_fields stays empty.
copy_struct_no_fields(v) ==
    IF v.t = "StructInst" THEN StructInst(v.name, EmptyMap) ELSE v

\* The copy Assign makes of a struct instance (expr.rs:87-101).
copy_struct(v) ==
    IF v.t = "StructInst"
    THEN StructInst(v.name, [f \in DOMAIN v.fields |-> v.fields[f]])
    ELSE v

\* The match of Expr::Binary on (left, operator, right) (expr.rs:229-261).
\* Slash and the ordering of strings are left out: no program of the model
\* divides or orders strings.
\* A binary operation without the arms that mix a String and a Number.
binary_unmixed(l, op, r, m) ==
    CASE op = "Plus" /\ l.t = "Number" /\ r.t = "Number" -> Ok(Number(l.n + r.n), m)
      [] op = "Plus" /\ l.t = "String" /\ r.t = "String" -> Ok(StringValue(l.s \o r.s), m)
      [] op = "Minus" /\ l.t = "Number" /\ r.t = "Number" -> Ok(Number(l.n - r.n), m)
      [] op = "Less" /\ l.t = "Number" /\ r.t = "Number" -> Ok(check_bool(l.n < r.n), m)
      [] op = "BangEqual" -> Ok(check_bool(l # r), m)
      [] op = "EqualEqual" -> Ok(check_bool(l = r), m)
      [] OTHER -> Err(op \o " has not been implemented", m)

binary(l, op, r, m) ==
    CASE op = "Plus" /\ l.t = "Number" /\ r.t = "Number" -> Ok(Number(l.n + r.n), m)
      [] op = "Plus" /\ l.t = "String" /\ r.t = "String" -> Ok(StringValue(l.s \o r.s), m)
      [] op = "Plus" /\ l.t = "String" /\ r.t = "Number" ->
            Ok(StringValue(l.s \o NumToString(r.n)), m)
      [] op = "Plus" /\ l.t = "Number" /\ r.t = "String" ->
            Ok(StringValue(NumToString(l.n) \o r.s), m)
      [] op = "Minus" /\ l.t = "Number" /\ r.t = "Number" -> Ok(Number(l.n - r.n), m)
      [] op = "Minus" /\ l.t \in {"Number", "String"} /\ r.t \in {"Number", "String"}
            /\ "String" \in {l.t, r.t} -> Err("NaN", m)
      [] op = "Star" /\ l.t = "Number" /\ r.t = "Number" -> Ok(Number(l.n * r.n), m)
      [] op = "Greater" /\ l.t = "Number" /\ r.t = "Number" -> Ok(check_bool(l.n > r.n), m)
      [] op = "GreaterEqual" /\ l.t = "Number" /\ r.t = "Number" ->
            Ok(check_bool(l.n >= r.n), m)
      [] op = "Less" /\ l.t = "Number" /\ r.t = "Number" -> Ok(check_bool(l.n < r.n), m)
      [] op = "LessEqual" /\ l.t = "Number" /\ r.t = "Number" ->
            Ok(check_bool(l.n <= r.n), m)
      [] op = "BangEqual" -> Ok(check_bool(~eq(l, r)), m)
      [] op = "EqualEqual" -> Ok(check_bool(eq(l, r)), m)
      [] OTHER -> Err(op \o " has not been implemented", m)

(***************************************************************************)
(* Expr::evaluate (expr.rs:72-433) and Interpreter::interpret              *)
(* (interpreter.rs:45-191).  `e` is the scope the code is handed.          *)
(***************************************************************************)
\* The scope a call hands to the callable: Rc::from(environment.clone())
\* (expr.rs:323).  The clone is a new scope holding a copy of the bindings
\* of the scope the call is evaluated in, with the same enclosing scope.
call_site_clone(h, e) == Append(h, h[e])

\* Interpreter::for_closure (interpreter.rs:37-44): a new empty scope whose
\* enclosing scope is `parent`.
for_closure(h, parent) == Append(h, new_with_enclosing(parent))

\* The parameter bindings of one invocation (interpreter.rs:153-156).
RECURSIVE define_params(_, _, _, _)
define_params(env, params, args, i) ==
    IF i > Len(args) THEN env
    ELSE define_params(define(env, params[i], args[i], FALSE), params, args, i + 1)

\* clock_impl (interpreter.rs:14-21).
clock_impl(m) == Number(m.now)

(***************************************************************************)
(* evaluate, interpret and the closure of a function call one another.     *)
(* The recursion goes through one operator, recur, which takes the call as *)
(* a record and hands it to the definition it names; call_X(args) is the   *)
(* call X(args) made through recur.                                        *)
(***************************************************************************)
RECURSIVE recur(_)
call_evaluate(expr, e, m) == recur([f |-> "evaluate", a |-> <<expr, e, m>>])
call_evaluate_list(exprs, e, m, acc) ==
    recur([f |-> "evaluate_list", a |-> <<exprs, e, m, acc>>])
call_struct_fields(ks, fields, def, e, m, acc) ==
    recur([f |-> "struct_fields", a |-> <<ks, fields, def, e, m, acc>>])
call_interpret(stmts, e, m) == recur([f |-> "interpret", a |-> <<stmts, e, m>>])
call_execute(stmt, e, m) == recur([f |-> "execute", a |-> <<stmt, e, m>>])
call_run_body(body, i, ce, m) == recur([f |-> "run_body", a |-> <<body, i, ce, m>>])
call_fun_impl(callable, parent, args, m) ==
    recur([f |-> "fun_impl", a |-> <<callable, parent, args, m>>])
call_while_loop(stmt, e, m) == recur([f |-> "while_loop", a |-> <<stmt, e, m>>])
call_loop_loop(stmt, e, m) == recur([f |-> "loop_loop", a |-> <<stmt, e, m>>])
call_run_elifs(stmt, i, e, m, executed) ==
    recur([f |-> "run_elifs", a |-> <<stmt, i, e, m, executed>>])

\* The elements of an Array literal / the arguments of a Call, left to right;
\* v is the sequence of their values.
evaluate_list(exprs, e, m, acc) ==
    IF exprs = <<>> THEN Ok(acc, m)
    ELSE LET r == call_evaluate(Head(exprs), e, m) IN
         IF r.st # "ok" THEN r
         ELSE call_evaluate_list(Tail(exprs), e, r.m, Append(acc, r.v))

\* The first loop of StructInst (expr.rs:358-389) over the literal's fields
\* in iteration order ks; v is the map of evaluated fields.
struct_fields(ks, fields, def, e, m, acc) ==
    IF ks = <<>> THEN Ok(acc, m)
    ELSE LET fname == Head(ks) IN
         IF fname \notin DOMAIN def.fields
         THEN Err("Field '" \o fname \o "' does not exist in struct definition '"
                  \o def.name \o "'", m)
         ELSE LET r == call_evaluate(fields[fname], e, m) IN
              IF r.st # "ok" THEN r
              ELSE LET x == call_evaluate(def.fields[fname], e, r.m) IN
                   IF x.st # "ok" THEN x
                   ELSE IF ~HasType(r.v) \/ ~HasType(x.v) THEN Panic(x.m)
                   ELSE IF to_type(r.v) # to_type(x.v)
                   THEN Err("Type mismatch for field '" \o fname \o "': expected "
                            \o Quoted(to_type(x.v)) \o ", got " \o Quoted(to_type(r.v)),
                            x.m)
                   ELSE call_struct_fields(Tail(ks), fields, def, e, x.m,
                                      MapPut(acc, fname, r.v))

\* The second loop of StructInst (expr.rs:392-401): the declared fields the
\* literal left out, in iteration order.
missing_fields(def, evaluated, ord) ==
    LET ks == KeysInOrder(DOMAIN def.fields, ord) IN
    SelectSeq(ks, LAMBDA f : f \notin DOMAIN evaluated)

\* The arity error of a call (expr.rs:313-314).
arity_error(name, arity, got) ==
    "Callable " \o name \o " expected " \o NumToString(arity)
        \o " arguments but got " \o NumToString(got)

\* The mutant of call_callable: the arguments are evaluated before the
\* argument count is compared with the arity.
call_callable_args_first(callable, arguments, e, m) ==
    LET a == call_evaluate_list(arguments, e, m, <<>>) IN
    IF a.st # "ok" THEN a
    ELSE IF Len(arguments) # callable.arity
    THEN Err(arity_error(callable.name, callable.arity, Len(arguments)), a.m)
    ELSE LET h1 == call_site_clone(a.m.h, e) IN
         call_fun_impl(callable, Len(h1), a.v, [a.m EXCEPT !.h = h1])

\* The Callable arm of Expr::Call (expr.rs:311-325).
call_callable(callable, arguments, e, m) ==
    IF Len(arguments) # callable.arity
    THEN Err(arity_error(callable.name, callable.arity, Len(arguments)), m)
    ELSE LET a == call_evaluate_list(arguments, e, m, <<>>) IN
         IF a.st # "ok" THEN a
         ELSE LET h1 == call_site_clone(a.m.h, e) IN
              call_fun_impl(callable, Len(h1), a.v, [a.m EXCEPT !.h = h1])

\* The name each arm of rcn_math::check_type writes into the PreFunction it
\* builds through its get_* helper (rcn_math.rs:24-151, 168-290): the arm
\* "degrees" calls get_radians and the arm "radians" calls get_degrees.
MathHelpers ==
    [floor |-> "floor", ceil |-> "ceil", round |-> "round", sqrt |-> "sqrt",
     abs |-> "abs", max |-> "max", min |-> "min", random |-> "random",
     pow |-> "pow", lgm |-> "lgm", cos |-> "cos", sin |-> "sin", tan |-> "tan",
     degrees |-> "radians", radians |-> "degrees"]

\* The same for rcn_io::check_type and its fn_* helpers (rcn_io.rs:10-90).
IoHelpers ==
    [read_input |-> "read_input", open_file |-> "open_file",
     write_file |-> "write_file", file_exists |-> "file_exists",
     delete_file |-> "delete_file"]

\* check_type of module M on the identifier after `M.` and the argument
\* expressions found between the parentheses.  (The constants math.pi, .e,
\* .tau and .nan are literals, not calls.)
check_type(module, identifier, args) ==
    LET helpers == IF module = "math" THEN MathHelpers ELSE IoHelpers IN
    IF identifier \in DOMAIN helpers
    THEN [ok |-> TRUE, expr |-> PreFunction(module, helpers[identifier], args)]
    ELSE [ok |-> FALSE, err |-> "Unknown identifier '" \o identifier \o "'."]

\* The native functions the PreFunction arm knows, by module and by the
\* name in the node (expr.rs:272-300).
Natives ==
    [math |-> [f \in {"floor", "ceil", "round", "sqrt", "abs", "max", "min", "random",
                      "pow", "lgm", "cos", "sin", "tan", "degrees", "radians"}
                 |-> "rcn_math::" \o f],
     io |-> [read_input |-> "rcn_io::read_input", file_open |-> "rcn_io::open_file"]]

\* What a native function returns for its arguments is kept as a term: the
\* function that ran and the values it was given.
NativeValue(fn, args) == [t |-> "Native", fn |-> fn, args |-> args]

\* The PreFunction arm of Expr::evaluate after the arguments are evaluated
\* (expr.rs:270-306).
pre_function(module, function, evaluated_args, m) ==
    IF module \in DOMAIN Natives
    THEN IF function \in DOMAIN Natives[module]
         THEN Ok(NativeValue(Natives[module][function], evaluated_args), m)
         ELSE Err("Function '" \o module \o "." \o function \o "' not implemented.", m)
    ELSE Err("Module '" \o module \o "' not found.", m)

evaluate(expr, e, m) ==
    CASE expr.k = "Literal" -> Ok(expr.value, m)
      [] expr.k = "Grouping" -> call_evaluate(expr.expression, e, m)
      [] expr.k = "Array" ->
            LET r == call_evaluate_list(expr.elements, e, m, <<>>) IN
            IF r.st # "ok" THEN r ELSE Ok(Array(r.v), r.m)
      [] expr.k = "Variable" ->
            LET g == get(m.h, e, expr.name) IN
            IF g.some THEN Ok(g.v, m)
            ELSE Err("Undefined variable or function '" \o expr.name \o "'.", m)
      [] expr.k = "Assign" ->
            LET r == call_evaluate(expr.value, e, m) IN
            IF r.st # "ok" THEN r
            ELSE LET new_value == copy_struct(r.v)
                     a == assign(r.m.h, e, expr.name, new_value)
                 IN IF a.ok THEN Ok(new_value, [r.m EXCEPT !.h = a.h])
                    ELSE Err("Variable " \o expr.name \o " has not been declared.", r.m)
      [] expr.k = "FieldAccess" ->
            LET r == call_evaluate(expr.object, e, m) IN
            IF r.st # "ok" THEN r
            ELSE IF r.v.t = "StructInst"
            THEN IF expr.field \in DOMAIN r.v.fields
                 THEN Ok(r.v.fields[expr.field], r.m)
                 ELSE Err("Field '" \o expr.field \o "' not found in struct '"
                          \o r.v.name \o "'.", r.m)
            ELSE IF ~HasType(r.v) THEN Panic(r.m)
            ELSE Err("Expected a struct or namespace for field access, but got '"
                     \o to_type(r.v) \o "'.", r.m)
      [] expr.k = "Logical" ->
            IF expr.op \notin {"Or", "And"}
            THEN Err("Invalid token in logical expression: " \o expr.op, m)
            ELSE
            LET l == call_evaluate(expr.left, e, m) IN
            IF l.st # "ok" THEN l
            ELSE IF ~HasTruth(l.v) THEN Panic(l.m)
            ELSE LET r == call_evaluate(expr.right, e, l.m) IN
                 IF r.st # "ok" THEN r
                 ELSE IF ~HasTruth(r.v) THEN Panic(r.m)
                 ELSE IF expr.op = "Or"
                 THEN (IF is_truthy(l.v) = True THEN Ok(True, r.m)
                       ELSE IF is_truthy(r.v) = True THEN Ok(True, r.m)
                       ELSE Ok(False, r.m))
                 ELSE (IF is_truthy(l.v) = False THEN Ok(False, r.m)
                       ELSE IF is_truthy(r.v) = True THEN Ok(True, r.m)
                       ELSE Ok(False, r.m))
      [] expr.k = "Unary" ->
            LET r == call_evaluate(expr.right, e, m) IN
            IF r.st # "ok" THEN r
            ELSE IF expr.op = "Minus"
            THEN (IF r.v.t = "Number" THEN Ok(Number(-r.v.n), r.m)
                  ELSE IF ~HasType(r.v) THEN Panic(r.m)
                  ELSE Err("Cannot use - for " \o Quoted(to_type(r.v)), r.m))
            ELSE IF expr.op = "Bang"
            THEN (IF HasTruth(r.v) THEN Ok(is_falsy(r.v), r.m) ELSE Panic(r.m))
            ELSE Err(expr.op \o " is not a valid operator.", r.m)
      [] expr.k = "Binary" ->
            LET l == call_evaluate(expr.left, e, m) IN
            IF l.st # "ok" THEN l
            ELSE LET r == call_evaluate(expr.right, e, l.m) IN
                 IF r.st # "ok" THEN r
                 ELSE binary(l.v, expr.op, r.v, r.m)
      [] expr.k = "Call" ->
            LET c == call_evaluate(expr.callee, e, m) IN
            IF c.st # "ok" THEN c
            ELSE IF c.v.t = "Callable" THEN call_callable(c.v, expr.arguments, e, c.m)
            ELSE IF ~formats(expr.callee) THEN Panic(c.m)
            ELSE Err("'" \o expr_to_string(expr.callee, m.ord) \o "' is not callable", c.m)
      [] expr.k = "StructInst" ->
            LET g == get(m.h, e, expr.name) IN
            IF ~(g.some /\ g.v.t = "StructDef")
            THEN Err("Struct definition '" \o expr.name \o "' not found", m)
            ELSE LET def == g.v
                     r == call_struct_fields(KeysInOrder(DOMAIN expr.fields, m.ord),
                                        expr.fields, def, e, m, EmptyMap)
                 IN IF r.st # "ok" THEN r
                    ELSE LET miss == missing_fields(def, r.v, m.ord) IN
                         IF miss # <<>>
                         THEN Err("Missing field '" \o Head(miss)
                                  \o "' in struct instantiation '" \o def.name \o "'", r.m)
                         ELSE Ok(StructInst(def.name, r.v), r.m)
      [] expr.k = "PreFunction" ->
            LET a == call_evaluate_list(expr.args, e, m, <<>>) IN
            IF a.st # "ok" THEN a
            ELSE pre_function(expr.module, expr.name, a.v, a.m)
      [] expr.k = "Index" ->
            LET a == call_evaluate(expr.array, e, m) IN
            IF a.st # "ok" THEN a
            ELSE LET i == call_evaluate(expr.index, e, a.m) IN
                 IF i.st # "ok" THEN i
                 ELSE IF a.v.t # "Array"
                 THEN Err("Attempt to index a non-array value", i.m)
                 ELSE IF i.v.t # "Number"
                 THEN Err("Array index must be a number", i.m)
                 ELSE IF as_usize(i.v.n) < Len(a.v.elems)
                 THEN Ok(a.v.elems[as_usize(i.v.n) + 1], i.m)
                 ELSE Err("Array index out of bounds", i.m)

\* The statements of a function body, each handed to a one-statement
\* interpret (interpreter.rs:158-164); i is the next statement.
run_body(body, i, ce, m) ==
    IF i > Len(body) THEN Ok(Nil, m)
    ELSE LET r == call_interpret(<<body[i]>>, ce, m) IN
         IF r.st # "ok" THEN r ELSE call_run_body(body, i + 1, ce, r.m)

\* The closure FuncStmt builds (interpreter.rs:150-174), called with the
\* scope `parent` and the argument values; a native callable ignores both.
fun_impl(callable, parent, args, m) ==
    IF callable.native THEN Ok(clock_impl(m), m)
    ELSE IF m.fuel = 0 THEN Diverge(m)
    ELSE LET h1 == for_closure(m.h, parent)
             ce == Len(h1)
             h2 == [h1 EXCEPT ![ce] = define_params(h1[ce], callable.params, args, 1)]
             b == call_run_body(callable.body, 1, ce,
                                [m EXCEPT !.h = h2, !.fuel = @ - 1, !.cur = ce])
             r == IF b.st = "err" THEN Ok(Nil, b.m)
                  ELSE IF b.st # "ok" THEN b
                  ELSE IF Len(callable.body) = 0 THEN Panic(b.m)
                  ELSE LET last == callable.body[Len(callable.body)] IN
                       IF last.k = "Expression"
                       THEN LET v == call_evaluate(last.expression, ce, b.m) IN
                            IF v.st = "err" THEN Panic(v.m) ELSE v
                       ELSE Ok(Nil, b.m)
         \* closure_int is an Interpreter of its own: the caller's
         \* environment field is what it was
         IN  [r EXCEPT !.m.cur = m.cur]

\* A while that tests its condition once: the body runs at most once.
while_loop_once(stmt, e, m) ==
    LET c == call_evaluate(stmt.condition, e, m) IN
    IF c.st # "ok" THEN c
    ELSE IF ~HasTruth(c.v) THEN Panic(c.m)
    ELSE IF is_truthy(c.v) # True THEN Ok(Nil, c.m)
    ELSE call_interpret(<<stmt.body>>, e, c.m)

while_loop(stmt, e, m) ==
    LET c == call_evaluate(stmt.condition, e, m) IN
    IF c.st # "ok" THEN c
    ELSE IF ~HasTruth(c.v) THEN Panic(c.m)
    ELSE IF is_truthy(c.v) # True THEN Ok(Nil, c.m)
    ELSE IF c.m.fuel = 0 THEN Diverge(c.m)
    ELSE LET r == call_interpret(<<stmt.body>>, e, [c.m EXCEPT !.fuel = @ - 1]) IN
         IF r.st # "ok" THEN r ELSE call_while_loop(stmt, e, r.m)

loop_loop(stmt, e, m) ==
    IF m.fuel = 0 THEN Diverge(m)
    ELSE LET r == call_interpret(<<stmt.body>>, e, [m EXCEPT !.fuel = @ - 1]) IN
         IF r.st # "ok" THEN r ELSE call_loop_loop(stmt, e, r.m)

\* An elif loop without the `break`: later elif predicates are still
\* evaluated, and their bodies run, after one elif body has run.
run_elifs_no_break(stmt, i, e, m, executed) ==
    IF i > Len(stmt.elifs)
    THEN IF ~executed /\ stmt.els # <<>> THEN call_interpret(stmt.els, e, m) ELSE Ok(Nil, m)
    ELSE LET c == call_evaluate(stmt.elifs[i][1], e, m) IN
         IF c.st # "ok" THEN c
         ELSE IF ~HasTruth(c.v) THEN Panic(c.m)
         ELSE IF is_truthy(c.v) = True
         THEN LET r == call_interpret(<<stmt.elifs[i][2]>>, e, c.m) IN
              IF r.st # "ok" THEN r ELSE call_run_elifs(stmt, i + 1, e, r.m, TRUE)
         ELSE call_run_elifs(stmt, i + 1, e, c.m, executed)

\* The elif loop and the else branch (interpreter.rs:97-116); i is the next
\* elif.
run_elifs(stmt, i, e, m, executed) ==
    IF i > Len(stmt.elifs) \/ executed
    THEN IF ~executed /\ stmt.els # <<>> THEN call_interpret(stmt.els, e, m) ELSE Ok(Nil, m)
    ELSE LET c == call_evaluate(stmt.elifs[i][1], e, m) IN
         IF c.st # "ok" THEN c
         ELSE IF ~HasTruth(c.v) THEN Panic(c.m)
         ELSE IF is_truthy(c.v) = True
         THEN LET r == call_interpret(<<stmt.elifs[i][2]>>, e, c.m) IN
              IF r.st # "ok" THEN r ELSE call_run_elifs(stmt, i + 1, e, r.m, TRUE)
         ELSE call_run_elifs(stmt, i + 1, e, c.m, FALSE)

\* A struct declaration registers its schema under its name in the current
\* scope.  interpreter.rs has no arm for Stmt::StructStmt; this follows the
\* specification's "Struct declaration" rule.
struct_statement(stmt, e, m) ==
    Ok(Nil, [m EXCEPT !.h[e] =
        define(@, stmt.name, StructDef(stmt.name, stmt.params), FALSE)])

\* A block that runs its statements in the scope it was met in.
block_environment_reused(h, e) == [h |-> h, e |-> e]

\* The scope a Block runs its statements in (interpreter.rs:79-83): a new
\* scope enclosed by the current one; e is the new current scope.
block_environment(h, e) ==
    [h |-> Append(h, new_with_enclosing(e)), e |-> Len(h) + 1]

\* A block that makes the old scope current again only when its statements
\* succeeded.
block_restore_on_success(r, old_environment) ==
    IF r.st = "ok" THEN [r EXCEPT !.m.cur = old_environment] ELSE r

\* self.environment = old_environment (interpreter.rs:85), before the
\* result r of the block's statements is looked at (interpreter.rs:87).
block_restore(r, old_environment) == [r EXCEPT !.m.cur = old_environment]

\* One arm of the match in interpret.
execute(stmt, e, m) ==
    CASE stmt.k = "Expression" ->
            LET r == call_evaluate(stmt.expression, e, m) IN
            IF r.st # "ok" THEN r ELSE Ok(Nil, r.m)
      [] stmt.k = "Log" ->
            LET r == call_evaluate(stmt.expression, e, m) IN
            IF r.st # "ok" THEN r
            ELSE Ok(Nil, [r.m EXCEPT !.out = Append(@, to_string(r.v, m.ord))])
      [] stmt.k = "Var" ->
            LET r == call_evaluate(stmt.initializer, e, m) IN
            IF r.st # "ok" THEN r
            ELSE Ok(Nil, [r.m EXCEPT !.h[e] = define(@, stmt.name, r.v, FALSE)])
      [] stmt.k = "Block" ->
            LET b == block_environment(m.h, e) IN
            block_restore(call_interpret(stmt.statements, b.e,
                                         [m EXCEPT !.h = b.h, !.cur = b.e]),
                          m.cur)
      [] stmt.k = "IfStmt" ->
            LET c == call_evaluate(stmt.predicate, e, m) IN
            IF c.st # "ok" THEN c
            ELSE IF ~HasTruth(c.v) THEN Panic(c.m)
            ELSE IF is_truthy(c.v) = True THEN call_interpret(<<stmt.then>>, e, c.m)
            ELSE call_run_elifs(stmt, 1, e, c.m, FALSE)
      [] stmt.k = "WhileStmt" -> call_while_loop(stmt, e, m)
      [] stmt.k = "LoopStmt" -> call_loop_loop(stmt, e, m)
      \* return_value is bound and dropped; the statement ends like any other.
      [] stmt.k = "ReturnStmt" ->
            IF stmt.value = <<>> THEN Ok(Nil, m)
            ELSE LET r == call_evaluate(stmt.value[1], e, m) IN
                 IF r.st # "ok" THEN r ELSE Ok(Nil, r.m)
      [] stmt.k = "FuncStmt" ->
            Ok(Nil, [m EXCEPT !.h[e] =
                define(@, stmt.name,
                       Callable(stmt.name, Len(stmt.parameters), stmt.parameters,
                                stmt.body, FALSE),
                       FALSE)])
      [] stmt.k = "StructStmt" -> struct_statement(stmt, e, m)

\* An interpret that goes on with the next statement after a failed one.
interpret_keeps_going(stmts, e, m) ==
    IF stmts = <<>> THEN Ok(Nil, m)
    ELSE LET r == call_execute(Head(stmts), e, m) IN
         IF r.st \in {"panic", "diverge"} THEN r
         ELSE call_interpret(Tail(stmts), r.m.cur, r.m)

\* for stmt in stmts { match stmt { ... } } Ok(()).  Each statement runs
\* in the scope that is current when it starts.
interpret(stmts, e, m) ==
    IF stmts = <<>> THEN Ok(Nil, m)
    ELSE LET r == call_execute(Head(stmts), e, m) IN
         IF r.st # "ok" THEN r ELSE call_interpret(Tail(stmts), r.m.cur, r.m)

recur(t) ==
    LET a == t.a IN
    CASE t.f = "evaluate" -> evaluate(a[1], a[2], a[3])
      [] t.f = "evaluate_list" -> evaluate_list(a[1], a[2], a[3], a[4])
      [] t.f = "struct_fields" -> struct_fields(a[1], a[2], a[3], a[4], a[5], a[6])
      [] t.f = "interpret" -> interpret(a[1], a[2], a[3])
      [] t.f = "execute" -> execute(a[1], a[2], a[3])
      [] t.f = "run_body" -> run_body(a[1], a[2], a[3], a[4])
      [] t.f = "fun_impl" -> fun_impl(a[1], a[2], a[3], a[4])
      [] t.f = "while_loop" -> while_loop(a[1], a[2], a[3])
      [] t.f = "loop_loop" -> loop_loop(a[1], a[2], a[3])
      [] t.f = "run_elifs" -> run_elifs(a[1], a[2], a[3], a[4], a[5])

(***************************************************************************)
(* The scanner (scanner.rs).  A source text is a sequence of chars, each a *)
(* one-character string.  `current` and `start` count chars where the code *)
(* reads a char (chars().nth) and bytes where it compares with             *)
(* source.len() or slices the source, as in the code.                      *)
(***************************************************************************)
\* The number of bytes of a char in UTF-8.
Width(c) == IF c = "é" THEN 2 ELSE 1

\* The byte offset of the char boundary after the first k chars.
RECURSIVE Offset(_, _)
Offset(src, k) == IF k = 0 THEN 0 ELSE Offset(src, k - 1) + Width(src[k])

\* String::len: the length in bytes.
ByteLen(src) == Offset(src, Len(src))

RECURSIVE JoinChars(_)
JoinChars(cs) == IF cs = <<>> THEN "" ELSE Head(cs) \o JoinChars(Tail(cs))

\* &source[a..b]: the chars between the byte offsets a and b.  The slice
\* panics unless a <= b and both are char boundaries of the source.
CanSlice(src, a, b) ==
    /\ a <= b
    /\ \E k \in 0..Len(src) : Offset(src, k) = a
    /\ \E k \in 0..Len(src) : Offset(src, k) = b

Slice(src, a, b) ==
    LET ka == CHOOSE k \in 0..Len(src) : Offset(src, k) = a
        kb == CHOOSE k \in 0..Len(src) : Offset(src, k) = b
    IN  SubSeq(src, ka + 1, kb)

Digits == {"0", "1", "2", "3", "4", "5", "6", "7", "8", "9"}
Alphas ==
    {"a", "b", "c", "d", "e", "f", "g", "h", "i", "j", "k", "l", "m", "n", "o",
     "p", "q", "r", "s", "t", "u", "v", "w", "x", "y", "z", "_",
     "A", "B", "C", "D", "E", "F", "G", "H", "I", "J", "K", "L", "M", "N", "O",
     "P", "Q", "R", "S", "T", "U", "V", "W", "X", "Y", "Z"}

\* is_digit, is_alpha, is_alpha_numeric (scanner.rs:351-363) compare
\* `ch as u8`; 'é' as u8 is 233, which lies in none of the ranges.
is_digit(ch) == ch \in Digits
is_alpha(ch) == ch \in Alphas
is_alpha_numeric(ch) == is_alpha(ch) \/ is_digit(ch)

DigitValue(ch) ==
    CASE ch = "0" -> 0 [] ch = "1" -> 1 [] ch = "2" -> 2 [] ch = "3" -> 3
      [] ch = "4" -> 4 [] ch = "5" -> 5 [] ch = "6" -> 6 [] ch = "7" -> 7
      [] ch = "8" -> 8 [] ch = "9" -> 9

RECURSIVE DigitsValue(_)
DigitsValue(cs) ==
    IF cs = <<>> THEN 0
    ELSE DigitsValue(SubSeq(cs, 1, Len(cs) - 1)) * 10 + DigitValue(cs[Len(cs)])

\* scanner::LiteralValue (scanner.rs:316-322) and Token (scanner.rs:324-330).
\* A FloatValue holds the whole part and the digits of the fraction.
NoLiteral == [t |-> "None"]
FloatValue(whole, frac) == [t |-> "FloatValue", whole |-> whole, frac |-> frac]
IntValue(x) == [t |-> "IntValue", n |-> x]
scanner_StringValue(s) == [t |-> "StringValue", s |-> s]

Token(token_type, lexeme, literal, line_number) ==
    [token_type |-> token_type, lexeme |-> lexeme, literal |-> literal,
     line_number |-> line_number]

\* get_keyword_hashmap (scanner.rs:366-394).
Keywords ==
    [w \in {"if", "elif", "else", "for", "in", "while", "true", "false", "nil",
            "this", "and", "or", "class", "fn", "struct", "return", "compose",
            "var", "const", "log", "err", "print", "import", "as"} |->
       CASE w = "if" -> "If" [] w = "elif" -> "Elif" [] w = "else" -> "Else"
         [] w = "for" -> "For" [] w = "in" -> "In" [] w = "while" -> "While"
         [] w = "true" -> "True" [] w = "false" -> "False" [] w = "nil" -> "Nil"
         [] w = "this" -> "This" [] w = "and" -> "And" [] w = "or" -> "Or"
         [] w = "class" -> "Class" [] w = "fn" -> "Function"
         [] w = "struct" -> "Struct" [] w = "return" -> "Return"
         [] w = "compose" -> "Loop" [] w = "var" -> "Var" [] w = "const" -> "Const"
         [] w = "log" -> "Log" [] w = "err" -> "Error" [] w = "print" -> "Print"
         [] w = "import" -> "Import" [] w = "as" -> "As"]

\* Scanner::new (scanner.rs:17-26).  st is "run" while scan_tokens is in
\* its loop, "panic" once the thread panicked, "ok" / "err" once it
\* returned; result is the error text it returned.
Scanner_new ==
    [tokens |-> <<>>, start |-> 0, current |-> 0, line |-> 1, errors |-> <<>>,
     st |-> "run", result |-> ""]

Scanner_panic(s) == [s EXCEPT !.st = "panic"]

\* What peek and peek_next return at the end of the source.
NUL == "\\0"
\* chars().nth(i).unwrap() with no i-th char.
NoChar == "unwrap on None"

Scanner_is_at_end(src, s) == s.current >= ByteLen(src)

\* chars().nth(i): the i-th char, counted from 0.
nth(src, i) == IF i < Len(src) THEN src[i + 1] ELSE NoChar

Scanner_peek(src, s) == IF Scanner_is_at_end(src, s) THEN NUL ELSE nth(src, s.current)

peek_next(src, s) ==
    IF s.current + 1 >= ByteLen(src) THEN NUL ELSE nth(src, s.current + 1)

\* advance reads the char, then steps over it (scanner.rs:219-224).
Scanner_advance(src, s) ==
    IF nth(src, s.current) = NoChar THEN Scanner_panic(s)
    ELSE [s EXCEPT !.current = @ + 1]

add_token_lit(src, s, token_type, literal) ==
    IF ~CanSlice(src, s.start, s.current) THEN Scanner_panic(s)
    ELSE [s EXCEPT !.tokens =
            Append(@, Token(token_type, JoinChars(Slice(src, s.start, s.current)),
                            literal, s.line))]

add_token(src, s, token_type) == add_token_lit(src, s, token_type, NoLiteral)

\* char_match (scanner.rs:149-160).
char_match(src, s, ch) ==
    IF Scanner_is_at_end(src, s) THEN [hit |-> FALSE, s |-> s]
    ELSE IF nth(src, s.current) = NoChar THEN [hit |-> FALSE, s |-> Scanner_panic(s)]
    ELSE IF nth(src, s.current) # ch THEN [hit |-> FALSE, s |-> s]
    ELSE [hit |-> TRUE, s |-> [s EXCEPT !.current = @ + 1]]

\* A token of one or two chars: `two` when the next char is '='.
one_or_two(src, s, one, two) ==
    LET m == char_match(src, s, "=") IN
    IF m.s.st = "panic" THEN m.s
    ELSE add_token(src, m.s, IF m.hit THEN two ELSE one)

\* The loop that skips a comment (scanner.rs:77-81).
RECURSIVE skip_comment(_, _)
skip_comment(src, s) ==
    LET c == Scanner_peek(src, s) IN
    IF c = NoChar THEN Scanner_panic(s)
    ELSE IF c # "\n" /\ ~Scanner_is_at_end(src, s)
         THEN skip_comment(src, Scanner_advance(src, s))
    ELSE s

\* The loop of string (scanner.rs:163-168).
RECURSIVE string_chars(_, _)
string_chars(src, s) ==
    LET c == Scanner_peek(src, s) IN
    IF c = NoChar THEN Scanner_panic(s)
    ELSE IF c # "\"" /\ ~Scanner_is_at_end(src, s)
         THEN string_chars(src, Scanner_advance(src,
                  IF c = "\n" THEN [s EXCEPT !.line = @ + 1] ELSE s))
    ELSE s

\* string (scanner.rs:162-181): [s, err], err the message of an Err or "".
string(src, s) ==
    LET s1 == string_chars(src, s) IN
    IF s1.st = "panic" THEN [s |-> s1, err |-> ""]
    ELSE IF Scanner_is_at_end(src, s1) THEN [s |-> s1, err |-> "String not closed."]
    ELSE LET s2 == Scanner_advance(src, s1) IN
         IF s2.st = "panic" THEN [s |-> s2, err |-> ""]
         ELSE IF ~CanSlice(src, s2.start + 1, s2.current - 1)
              THEN [s |-> Scanner_panic(s2), err |-> ""]
         ELSE [s |-> add_token_lit(src, s2, "String",
                        scanner_StringValue(JoinChars(
                            Slice(src, s2.start + 1, s2.current - 1)))),
               err |-> ""]

\* The loops of number and identifier: advance while the next char is in
\* the class.
RECURSIVE advance_while(_, _, _)
advance_while(src, s, class) ==
    LET c == Scanner_peek(src, s) IN
    IF c = NoChar THEN Scanner_panic(s)
    ELSE IF c \in class THEN advance_while(src, Scanner_advance(src, s), class)
    ELSE s

\* number (scanner.rs:183-204).  The text is digits, or digits '.' digits,
\* which parse::<f64> always accepts.
number(src, s) ==
    LET s1 == advance_while(src, s, Digits) IN
    IF s1.st = "panic" THEN s1
    ELSE LET c == Scanner_peek(src, s1)
             n == peek_next(src, s1)
             dot == c = "." /\ is_digit(n)
             s2 == IF dot THEN advance_while(src, Scanner_advance(src, s1), Digits)
                   ELSE s1
         IN  IF c = NoChar \/ (c = "." /\ n = NoChar) \/ s2.st = "panic"
                \/ ~CanSlice(src, s2.start, s2.current)
             THEN Scanner_panic(s2)
             ELSE LET text == Slice(src, s2.start, s2.current)
                      whole == IF dot THEN SubSeq(text, 1, s1.current - s1.start)
                               ELSE text
                      frac == IF dot
                              THEN SubSeq(text, s1.current - s1.start + 2, Len(text))
                              ELSE <<>>
                  IN  add_token_lit(src, s2, "Number",
                                    FloatValue(DigitsValue(whole), frac))

\* identifier (scanner.rs:206-217).
identifier(src, s) ==
    LET s1 == advance_while(src, s, Alphas \cup Digits) IN
    IF s1.st = "panic" THEN s1
    ELSE IF ~CanSlice(src, s1.start, s1.current) THEN Scanner_panic(s1)
    ELSE LET text == JoinChars(Slice(src, s1.start, s1.current)) IN
         add_token(src, s1, IF text \in DOMAIN Keywords THEN Keywords[text]
                            ELSE "Identifier")

\* The tokens of one char (scanner.rs:65-78).
OneChar ==
    [c \in {"(", ")", "{", "}", "[", "]", ",", ".", ";", ":", "+", "-", "/", "*"} |->
       CASE c = "(" -> "LeftParen" [] c = ")" -> "RightParen"
         [] c = "{" -> "LeftBrace" [] c = "}" -> "RightBrace"
         [] c = "[" -> "LeftBracket" [] c = "]" -> "RightBracket"
         [] c = "," -> "Comma" [] c = "." -> "Dot" [] c = ";" -> "Semicolon"
         [] c = ":" -> "Colon" [] c = "+" -> "Plus" [] c = "-" -> "Minus"
         [] c = "/" -> "Slash" [] c = "*" -> "Star"]

\* scan_token (scanner.rs:61-131): [s, err], err the message of an Err or "".
scan_token(src, s) ==
    LET c == nth(src, s.current)
        a == Scanner_advance(src, s)
        Fine(t) == [s |-> t, err |-> ""]
    IN  CASE a.st = "panic" -> Fine(a)
          [] c \in DOMAIN OneChar -> Fine(add_token(src, a, OneChar[c]))
          [] c = "#" -> Fine(skip_comment(src, a))
          [] c = "!" -> Fine(one_or_two(src, a, "Bang", "BangEqual"))
          [] c = "=" -> Fine(one_or_two(src, a, "Equal", "EqualEqual"))
          [] c = "<" -> Fine(one_or_two(src, a, "Less", "LessEqual"))
          [] c = ">" -> Fine(one_or_two(src, a, "Greater", "GreaterEqual"))
          [] c \in {" ", "\r", "\t"} -> Fine(a)
          [] c = "\n" -> Fine([a EXCEPT !.line = @ + 1])
          [] c = "\"" -> string(src, a)
          [] is_digit(c) -> Fine(number(src, a))
          [] is_alpha(c) -> Fine(identifier(src, a))
          [] OTHER ->
                [s |-> a,
                 err |-> "Unrecognized token '" \o c \o "' at line "
                         \o NatToString(a.line)]

\* errors.join("\n") (scanner.rs:48).
RECURSIVE JoinLines(_)
JoinLines(msgs) ==
    IF Len(msgs) = 1 THEN msgs[1]
    ELSE msgs[1] \o "\n" \o JoinLines(Tail(msgs))

\* One turn of the loop of scan_tokens (scanner.rs:32-38).
scan_tokens_step(src, s) ==
    LET r == scan_token(src, [s EXCEPT !.start = s.current]) IN
    IF r.err = "" THEN r.s ELSE [r.s EXCEPT !.errors = Append(@, r.err)]

\* The end of scan_tokens (scanner.rs:40-54): the Eof token, then the result.
scan_tokens_end(s) ==
    LET t == [s EXCEPT !.tokens = Append(@, Token("Eof", "", NoLiteral, s.line))] IN
    IF t.errors # <<>> THEN [t EXCEPT !.st = "err", !.result = JoinLines(t.errors)]
    ELSE [t EXCEPT !.st = "ok"]

(***************************************************************************)
(* The parser (parser.rs).  p is the Parser: its tokens and `current`.     *)
(* A parsing function returns [ok, expr, err, p]: the Ok expression or the *)
(* Err message, and the Parser after the call.  The statement keywords,    *)
(* '.', '{' and ',' are scanned but occur in no source of the model, so    *)
(* of statement only the expression statement is modelled, and of primary  *)
(* the grouping, literal and plain identifier arms.                        *)
(***************************************************************************)
Parser_new(tokens) == [tokens |-> tokens, current |-> 0]

Parser_peek(p) == p.tokens[p.current + 1]
previous(p) == p.tokens[p.current]
Parser_is_at_end(p) == Parser_peek(p).token_type = "Eof"
Parser_advance(p) == IF ~Parser_is_at_end(p) THEN [p EXCEPT !.current = @ + 1] ELSE p
check(p, typ) == Parser_peek(p).token_type = typ

\* match_tokens (parser.rs:571-591): whether the next token has one of the
\* types (it is consumed if so); match_token is the case of one type.
match_tokens(p, typs) == ~Parser_is_at_end(p) /\ Parser_peek(p).token_type \in typs

POk(expr, p) == [ok |-> TRUE, expr |-> expr, err |-> "", p |-> p]
PErr(msg, p) == [ok |-> FALSE, expr |-> Nil, err |-> msg, p |-> p]

\* consume (parser.rs:556-565): the Parser after the token, or the message.
consume(p, typ, msg) ==
    IF check(p, typ) THEN POk(Nil, Parser_advance(p)) ELSE PErr(msg, p)

\* unwrap_as_f32 (literal_value.rs:53-59).  No source of the model holds a
\* fraction.
unwrap_as_f32(literal) ==
    CASE literal.t = "IntValue" -> literal.n
      [] literal.t = "FloatValue" /\ literal.frac = <<>> -> literal.whole

\* LiteralValue::from_token (literal_value.rs:99-108).
from_token(token) ==
    CASE token.token_type = "Number" -> Number(unwrap_as_f32(token.literal))
      [] token.token_type = "String" -> StringValue(token.literal.s)
      [] token.token_type = "False" -> False
      [] token.token_type = "True" -> True
      [] token.token_type = "Nil" -> Nil

\* The parsing functions call one another through one operator, parse_recur:
\* call_parser(f, <<args>>) is the call f(args).
RECURSIVE parse_recur(_)
call_parser(f, a) == parse_recur([f |-> f, a |-> a])

\* The loop shared by or, and, equality, comparison, term and factor:
\* while the next token is one of typs, it becomes the operator of a node
\* whose left side is the expression so far and whose right side is the
\* next operand.
left_assoc(p, expr, typs, operand, node) ==
    IF ~match_tokens(p, typs) THEN POk(expr, p)
    ELSE LET p1 == Parser_advance(p)
             operator == previous(p1)
             rhs == call_parser(operand, <<p1>>)
         IN  IF ~rhs.ok THEN rhs
             ELSE call_parser("left_assoc",
                      <<rhs.p,
                        IF node = "Logical"
                        THEN Logical(expr, operator.token_type, rhs.expr)
                        ELSE Binary(expr, operator.token_type, rhs.expr),
                        typs, operand, node>>)

\* The shape of or, and, equality, comparison, term and factor: the first
\* operand, then the loop.
operators(first, typs, operand, node) ==
    IF ~first.ok THEN first
    ELSE call_parser("left_assoc", <<first.p, first.expr, typs, operand, node>>)

expression(p) == call_parser("assignment", <<p>>)

\* assignment (parser.rs:325-340).
assignment(p) ==
    LET r == call_parser("or", <<p>>) IN
    IF ~r.ok THEN r
    ELSE IF match_tokens(r.p, {"Equal"})
         THEN LET v == call_parser("assignment", <<Parser_advance(r.p)>>) IN
              IF ~v.ok THEN v
              ELSE IF r.expr.k = "Variable" THEN POk(Assign(r.expr.name, v.expr), v.p)
              ELSE PErr("Invalid assignment target.", v.p)
    ELSE r

\* or (parser.rs:342-353).
or(p) ==
    operators(call_parser("and", <<p>>),
              {"Or"}, "and", "Logical")

\* and (parser.rs:355-369).
and(p) ==
    operators(call_parser("equality", <<p>>),
              {"And"}, "equality", "Logical")

\* equality (parser.rs:371-385).
equality(p) ==
    operators(call_parser("comparison", <<p>>),
              {"BangEqual", "EqualEqual"}, "comparison", "Binary")

\* comparison (parser.rs:387-401).
comparison(p) ==
    operators(call_parser("term", <<p>>),
              {"Greater", "GreaterEqual", "Less", "LessEqual"}, "term", "Binary")

\* A term that takes == and != as well: they bind as tightly as + and -.
term_takes_equality(p) ==
    operators(call_parser("factor", <<p>>),
              {"Minus", "Plus", "BangEqual", "EqualEqual"}, "factor", "Binary")

\* term (parser.rs:403-417).
term(p) ==
    operators(call_parser("factor", <<p>>),
              {"Minus", "Plus"}, "factor", "Binary")

\* factor (parser.rs:419-433).
factor(p) ==
    operators(call_parser("unary", <<p>>),
              {"Slash", "Star"}, "unary", "Binary")

\* unary (parser.rs:435-446).
unary(p) ==
    IF match_tokens(p, {"Bang", "Minus"})
    THEN LET p1 == Parser_advance(p)
             rhs == call_parser("unary", <<p1>>)
         IN  IF ~rhs.ok THEN rhs
             ELSE POk(Unary(previous(p1).token_type, rhs.expr), rhs.p)
    ELSE call_parser("call", <<p>>)

\* The loop of call (parser.rs:451-457).
call_loop(p, expr) ==
    IF ~match_tokens(p, {"LeftParen"}) THEN POk(expr, p)
    ELSE LET r == call_parser("finish_call", <<Parser_advance(p), expr>>) IN
         IF ~r.ok THEN r ELSE call_parser("call_loop", <<r.p, r.expr>>)

\* call (parser.rs:448-460).  (The operator is named parse_call: `call` is
\* the EnvSpec variable.)
parse_call(p) ==
    LET r == call_parser("primary", <<p>>) IN
    IF ~r.ok THEN r ELSE call_parser("call_loop", <<r.p, r.expr>>)

\* The argument loop of finish_call (parser.rs:466-479), at the point where
\* the next argument is parsed.
arguments(p, args) ==
    LET arg == call_parser("expression", <<p>>) IN
    IF ~arg.ok THEN [ok |-> FALSE, args |-> args, err |-> arg.err, p |-> arg.p]
    ELSE IF Len(args) + 1 >= 255
         THEN [ok |-> FALSE, args |-> args,
               err |-> "Line " \o NatToString(Parser_peek(arg.p).line_number)
                       \o ": Can't have more than 255 arguments.",
               p |-> arg.p]
    ELSE IF match_tokens(arg.p, {"Comma"})
         THEN call_parser("arguments",
                          <<Parser_advance(arg.p), Append(args, arg.expr)>>)
    ELSE [ok |-> TRUE, args |-> Append(args, arg.expr), err |-> "", p |-> arg.p]

\* finish_call (parser.rs:462-487).
finish_call(p, callee) ==
    LET as == IF ~check(p, "RightParen") THEN call_parser("arguments", <<p, <<>>>>)
              ELSE [ok |-> TRUE, args |-> <<>>, err |-> "", p |-> p]
    IN  IF ~as.ok THEN PErr(as.err, as.p)
        ELSE LET c == consume(as.p, "RightParen", "Expected ')' after arguments.") IN
             IF ~c.ok THEN c ELSE POk(Call(callee, as.args), c.p)

\* primary (parser.rs:489-554).
primary(p) ==
    LET token == Parser_peek(p) IN
    CASE token.token_type = "LeftParen" ->
            LET r == call_parser("expression", <<Parser_advance(p)>>) IN
            IF ~r.ok THEN r
            ELSE LET c == consume(r.p, "RightParen", "Expected ')' after expression") IN
                 IF ~c.ok THEN c ELSE POk(Grouping(r.expr), c.p)
      [] token.token_type \in {"False", "True", "Nil", "Number", "String"} ->
            POk(Literal(from_token(token)), Parser_advance(p))
      [] token.token_type = "Identifier" ->
            POk(Variable(token.lexeme), Parser_advance(p))
      [] OTHER -> PErr("Expected expression", p)

parse_recur(t) ==
    LET a == t.a IN
    CASE t.f = "expression" -> expression(a[1])
      [] t.f = "assignment" -> assignment(a[1])
      [] t.f = "or" -> or(a[1])
      [] t.f = "and" -> and(a[1])
      [] t.f = "equality" -> equality(a[1])
      [] t.f = "comparison" -> comparison(a[1])
      [] t.f = "term" -> term(a[1])
      [] t.f = "factor" -> factor(a[1])
      [] t.f = "unary" -> unary(a[1])
      [] t.f = "call" -> parse_call(a[1])
      [] t.f = "primary" -> primary(a[1])
      [] t.f = "left_assoc" -> left_assoc(a[1], a[2], a[3], a[4], a[5])
      [] t.f = "call_loop" -> call_loop(a[1], a[2])
      [] t.f = "finish_call" -> finish_call(a[1], a[2])
      [] t.f = "arguments" -> arguments(a[1], a[2])

\* expression_statement (parser.rs:313-319); declaration and statement
\* (parser.rs:59-114) come to it when the statement starts with no keyword.
expression_statement(p) ==
    LET r == call_parser("expression", <<p>>) IN
    IF ~r.ok THEN r
    ELSE LET c == consume(r.p, "Semicolon", "Expected ';' after value.") IN
         IF ~c.ok THEN c ELSE POk(Expression(r.expr), c.p)

declaration(p) == expression_statement(p)

\* The loop of sync (parser.rs:619-631), after its first advance.
RECURSIVE sync_loop(_)
sync_loop(p) ==
    IF Parser_is_at_end(p) THEN p
    ELSE IF previous(p).token_type = "Semicolon" THEN p
    ELSE IF Parser_peek(p).token_type \in
              {"Class", "Function", "Var", "For", "If", "While", "Log", "Error", "Return"}
         THEN p
    ELSE sync_loop(Parser_advance(p))

\* sync (parser.rs:616-632).
sync(p) == sync_loop(Parser_advance(p))

\* No Parser has been made yet.
NoParser == [st |-> "idle"]

\* Nothing is scanned or parsed: the state of the front end in the runs of
\* the other specifications.
FrontIdle ==
    /\ source = <<>>
    /\ scanner = Scanner_new
    /\ parser = NoParser

(***************************************************************************)
(* EnvSpec: the Environment API called directly.                           *)
(***************************************************************************)
EnvNames == {"n", "m"}
EnvValues == {Number(5), Number(10)}

NoCall == [op |-> "none"]

EnvInit ==
    /\ envs = <<EnvironmentNew>>
    /\ call = NoCall

\* A scope is opened inside the innermost one, as a block or a call opens it.
EnvNewWithEnclosing ==
    /\ Len(envs) < MaxEnvs
    /\ envs' = Append(envs, new_with_enclosing(Len(envs)))
    /\ call' = [op |-> "new", e |-> Len(envs) + 1]
    /\ UNCHANGED <<runVars, frontVars>>

EnvDefine ==
    \E e \in 1..Len(envs), n \in EnvNames, v \in EnvValues, c \in BOOLEAN :
        /\ envs' = [envs EXCEPT ![e] = define(envs[e], n, v, c)]
        /\ call' = [op |-> "define", e |-> e, n |-> n, v |-> v, c |-> c]
        /\ UNCHANGED <<runVars, frontVars>>

EnvGet ==
    \E e \in 1..Len(envs), n \in EnvNames :
        /\ envs' = envs
        /\ call' = [op |-> "get", e |-> e, n |-> n, ret |-> get(envs, e, n)]
        /\ UNCHANGED <<runVars, frontVars>>

EnvAssign ==
    \E e \in 1..Len(envs), n \in EnvNames, v \in EnvValues :
        LET r == assign(envs, e, n, v) IN
        /\ envs' = r.h
        /\ call' = [op |-> "assign", e |-> e, n |-> n, v |-> v, ret |-> r.ok]
        /\ UNCHANGED <<runVars, frontVars>>

EnvNext ==
    \/ EnvNewWithEnclosing
    \/ EnvDefine
    \/ EnvGet
    \/ EnvAssign

(***************************************************************************)
(* Spec: the programs run.  A scenario names a family of programs and its  *)
(* parameters; Program builds the statement list the parser would hand to  *)
(* interpret (a function body is one Block, parser.rs:134) or the list a   *)
(* test builds by hand (the body is the statement itself).                 *)
(***************************************************************************)
Nums == 0..MaxNum
FieldNames == {"x", "y", "z"}
DefaultOrder == <<"x", "y", "z">>
FieldOrders == {o \in [1..3 -> FieldNames] : \A i, j \in 1..3 : i # j => o[i] # o[j]}

Num(n) == Literal(Number(n))
Str(s) == Literal(StringValue(s))
CallStmt(name, args) == Expression(Call(Variable(name), args))

\* A function body as the parser builds it, or as the tests build it.
Body(shape, stmts) == IF shape = "parsed" THEN <<Block(stmts)>> ELSE stmts

\* stmts nested d levels deep in blocks, in if-branches or in while bodies.
RECURSIVE Wrap(_, _, _)
Wrap(form, d, stmts) ==
    IF d = 0 THEN stmts
    ELSE LET inner == Block(Wrap(form, d - 1, stmts)) IN
         CASE form = "block" -> <<inner>>
           [] form = "if" -> <<IfStmt(Literal(True), inner, <<>>, <<>>)>>
           [] form = "elif" ->
                <<IfStmt(Literal(False), Block(<<>>), <<<<Literal(True), inner>>>>, <<>>)>>
           [] form = "else" -> <<IfStmt(Literal(False), Block(<<>>), <<>>, <<inner>>)>>
           [] form = "while" -> <<WhileStmt(Literal(True), inner)>>
           [] form = "loop" -> <<LoopStmt(inner)>>

\* stmts nested d levels deep as Wrap nests them, each enclosing list going
\* on with a log statement after the nested one.
RECURSIVE Enclose(_, _, _)
Enclose(form, d, stmts) ==
    IF d = 0 THEN stmts
    ELSE Wrap(form, 1, Enclose(form, d - 1, stmts) \o <<Log(Str("enclosing"))>>)

\* An expression whose evaluation fails, and the error it fails with
\* (expr.rs:162-163, expr.rs:238).
Failing(how) ==
    IF how = "undefined" THEN Variable("missing") ELSE Binary(Str("a"), "Minus", Num(1))
FailingError(how) ==
    IF how = "undefined" THEN "Undefined variable or function 'missing'." ELSE "NaN"

ParamName(i) == "p" \o NatToString(i)

\* The struct literal S{f: v, ...} over the fields fs, every value of kind vk
\* built from n.
KindExpr(vk, n) ==
    CASE vk = "Number" -> Num(n)
      [] vk = "String" -> Str("s" \o NatToString(n))
      [] vk = "True" -> Literal(True)
      [] vk = "False" -> Literal(False)
      [] vk = "Nil" -> Literal(Nil)
      [] vk = "Array" -> ArrayExpr(<<Num(n)>>)
      [] vk = "Callable" -> Variable("f")
      [] vk = "StructDef" -> Variable("S")
      [] vk = "StructInst" -> StructInstExpr("S", [f \in {"x", "y"} |-> Num(n)])

SLiteral(fs, vk, n) == StructInstExpr("S", [f \in fs |-> KindExpr(vk, n)])
SDecl(fs) == StructStmt("S", [f \in fs |-> Num(0)])

\* The operands of the logical expressions: literals, and two expressions
\* that fail.
OperandKinds == {"true", "false", "nil", "zero", "text", "array"}
OperandValue(kind) ==
    CASE kind = "true" -> True
      [] kind = "false" -> False
      [] kind = "nil" -> Nil
      [] kind = "zero" -> Number(0)
      [] kind = "text" -> StringValue("a")
      [] kind = "array" -> Array(<<Number(1)>>)
Operand(kind, how) ==
    IF kind = "error" THEN Failing(how)
    ELSE IF kind = "array" THEN ArrayExpr(<<Num(1)>>)
    ELSE Literal(OperandValue(kind))

\* The functions the modules' check_type know, and the arguments each is
\* called with.
ModuleFunctions == DOMAIN MathHelpers \cup DOMAIN IoHelpers
ModuleArgs(F) ==
    IF F = "read_input" THEN <<>>
    ELSE IF F \in {"max", "min", "random", "pow", "write_file"} THEN <<Num(1), Num(2)>>
    ELSE <<Num(1)>>

\* The element at position i of the arrays that are indexed.
Element(i) == "e" \o NatToString(i)

ValueKinds ==
    {"Number", "String", "True", "False", "Nil", "Array", "Callable",
     "StructDef", "StructInst"}

Scenarios ==
    \* a function declared at the top level, called where a local x exists
    [id : {"closure"}, act : {"read", "write"}, v1 : Nums, v2 : Nums,
     d : 0..MaxDepth, ord : {DefaultOrder}, now : {0}]
    \cup
    \* a function whose body returns from d levels of nesting
    [id : {"return"}, form : {"block", "if", "elif", "else", "while", "loop"},
     shape : {"parsed", "direct"}, v1 : Nums, d : 0..MaxDepth,
     ord : {DefaultOrder}, now : {0}]
    \cup
    \* fn add(a, b) { return a + b; }  add(v1, v2)
    [id : {"add"}, shape : {"parsed", "direct"},
     v1 : Nums \cup {5}, v2 : Nums \cup {3}, ord : {DefaultOrder}, now : {0}]
    \cup
    \* a function of `arity` parameters called with `nargs` arguments
    [id : {"arity"}, arity : Nums, nargs : Nums, ord : {DefaultOrder}, now : {0}]
    \cup
    \* a call whose callee is bound nowhere, or bound to a number
    [id : {"callee"}, name : {"nonexistent_function", "g"}, bound : BOOLEAN,
     nargs : Nums, ord : {DefaultOrder}, now : {0}]
    \cup
    \* var a = S{...}; b becomes a copy of a; then `who` is overwritten
    [id : {"copy"}, form : {"var", "assign"}, who : {"a", "b"},
     v1 : Nums, v2 : Nums, ord : {DefaultOrder}, now : {0}]
    \cup
    \* v == v and v != v for a value of every variant
    [id : {"eq"}, kind : ValueKinds, op : {"EqualEqual", "BangEqual"},
     v1 : Nums, ord : {DefaultOrder}, now : {0}]
    \cup
    \* struct S declares the fields decl; a literal supplies the fields lit
    [id : {"literal"}, decl : SUBSET FieldNames, lit : SUBSET FieldNames,
     kind : {"Number", "String", "Array"}, v1 : {1}, ord : FieldOrders, now : {0}]
    \cup
    \* var x = v1; a block, nested d deep in `form`, declaring x = v2; log(x)
    [id : {"shadow"}, form : {"block", "if", "elif", "else"}, v1 : Nums, v2 : Nums,
     d : 1..MaxDepth, ord : {DefaultOrder}, now : {0}]
    \cup
    \* l op r;  where l and r are each the string s or the number n
    [id : {"mixed"}, op : {"Plus", "Minus"}, lt : {"String", "Number"},
     rt : {"String", "Number"}, s : {"abc", ""}, n : Nums \cup {5},
     ord : {DefaultOrder}, now : {0}]
    \cup
    \* fn f() { x = 1; <failing>; log("after"); }  f();  log("next");
    [id : {"failbody"}, shape : {"parsed", "direct"}, how : {"undefined", "NaN"},
     ord : {DefaultOrder}, now : {0}]
    \cup
    \* var a = [e0, ...] of length len;  a[i];  where i is a number, or the
    \* string "0" or nil when numeric is FALSE
    [id : {"index"}, len : 0..MaxNum, i : (0 - 2)..(MaxNum + 1),
     numeric : BOOLEAN, ord : {DefaultOrder}, now : {0}]
    \cup
    \* var x = "unset";  (x = <l>) op (x = <r>);
    [id : {"logical"}, op : {"Or", "And"}, l : OperandKinds \cup {"error"},
     r : OperandKinds \cup {"error"}, ord : {DefaultOrder}, now : {0}]
    \cup
    \* if (c0 = p0) { log("then"); } elif (c1 = p1) { log("elif1"); }
    \* elif (c2 = p2) { log("elif2"); } else { log("else"); }   the predicates
    \* record that they were evaluated; the else is there when els is TRUE
    [id : {"branch"}, p0 : OperandKinds \ {"array"}, p1 : OperandKinds \ {"array"},
     p2 : OperandKinds \ {"array"}, els : BOOLEAN, ord : {DefaultOrder}, now : {0}]
    \cup
    \* M.F(args);  as the check_type of module M builds the call's node
    \* (via = "source"), or the node PreFunction{M, F, args} itself
    [id : {"module"}, via : {"source", "node"}, M : {"math", "io", "os"},
     F : ModuleFunctions \cup {"file_open", "nope"}, ord : {DefaultOrder}, now : {0}]
    \cup
    \* fn f(p) { if (p == 0) { log(t); } else { var t = v1; <nested> } }
    \*   caller:  f(1); log(<which>);      is p or t bound at the caller?
    \*   later:   f(1); f(0);              does the second call see t?
    \*   nested:  f(1);  with <nested> = f(0);   does the inner call see t?
    [id : {"fresh"}, mode : {"caller", "later", "nested"}, which : {"p", "t"},
     shape : {"parsed", "direct"}, v1 : Nums, ord : {DefaultOrder}, now : {0}]
    \cup
    \* var c = 0; fn inc() { c = c + 1; }  { .. { inc(); } .. }  the call is
    \* nested d blocks deep
    [id : {"inc"}, shape : {"parsed", "direct"}, form : {"block", "if", "else"},
     d : 0..MaxDepth, ord : {DefaultOrder}, now : {0}]
    \cup
    \* var c = 0; fn f() { <body> }  then f(); for the empty body, { f(); }
    \* for a body that logs and counts: log("a"); c = c + 1;  in either order
    [id : {"once"}, shape : {"parsed", "direct"},
     body : {"empty", "count_last", "log_last"}, ord : {DefaultOrder}, now : {0}]
    \cup
    \* var v = <operand>;  !v;
    [id : {"not"},
     operand : {"zero", "one", "empty", "text", "true", "false", "nil", "array"},
     ord : {DefaultOrder}, now : {0}]
    \cup
    \* fn f() { var t = v1; <last>; }  f();  the body has no return
    [id : {"noreturn"}, shape : {"parsed", "direct"},
     last : {"expression", "log", "var", "block"}, v1 : Nums,
     ord : {DefaultOrder}, now : {0}]
    \cup
    \* a failing statement d levels deep, between statements with effects
    [id : {"abort"}, form : {"block", "if", "elif", "else", "while", "loop"},
     how : {"undefined", "NaN"}, d : 0..MaxDepth, ord : {DefaultOrder}, now : {0}]
    \cup
    \* the prompt: a line that ends (or fails) d blocks deep, then two lines
    [id : {"prompt"}, fails : BOOLEAN, how : {"undefined", "NaN"}, v1 : Nums,
     d : 1..MaxDepth, ord : {DefaultOrder}, now : {0}]
    \cup
    \* var counter = 0; while (counter < v1) { counter = counter + 1; } counter;
    \* the body also logs counter when logs is TRUE
    [id : {"while"}, v1 : 0..(MaxNum + 1), logs : BOOLEAN,
     ord : {DefaultOrder}, now : {0}]
    \cup
    \* while, if / elif / else, return, loop and the native clock at the top level
    [id : {"control"}, v1 : Nums, ord : {DefaultOrder}, now : Nums]

\* The lines typed at the prompt: each is the statement list run hands to
\* interpret.
PromptLines(sc) ==
    << Wrap("block", sc.d,
            <<Var("y", Num(sc.v1))>>
            \o (IF sc.fails THEN <<Expression(Failing(sc.how))>> ELSE <<>>)),
       <<Var("z", Num(sc.v1)), Log(Variable("z"))>>,
       <<Log(Variable("y"))>> >>

Program(sc) ==
    CASE sc.id = "closure" ->
            <<Var("x", Num(sc.v1)),
              FuncStmt("f", <<>>, Body("parsed",
                  IF sc.act = "read" THEN <<Log(Variable("x"))>>
                  ELSE <<Expression(Assign("x", Num(sc.v1 + sc.v2 + 1)))>>))>>
            \o Wrap("block", sc.d,
                    <<Var("x", Num(sc.v2)), CallStmt("f", <<>>), Log(Variable("x"))>>)
            \o <<Log(Variable("x"))>>
      [] sc.id = "return" ->
            <<FuncStmt("f", <<>>, Body(sc.shape,
                  Wrap(sc.form, sc.d, <<ReturnStmt(<<Num(sc.v1)>>)>>)
                  \o <<Log(Str("after"))>>)),
              CallStmt("f", <<>>)>>
      [] sc.id = "add" ->
            <<FuncStmt("add", <<"a", "b">>, Body(sc.shape,
                  <<ReturnStmt(<<Binary(Variable("a"), "Plus", Variable("b"))>>)>>)),
              CallStmt("add", <<Num(sc.v1), Num(sc.v2)>>)>>
      [] sc.id = "arity" ->
            <<Var("c", Num(0)),
              FuncStmt("f", [i \in 1..sc.arity |-> ParamName(i)],
                       Body("parsed", <<Log(Str("body"))>>)),
              CallStmt("f", [i \in 1..sc.nargs |-> Assign("c", Num(i))])>>
      [] sc.id = "callee" ->
            (IF sc.bound THEN <<Var(sc.name, Num(1))>> ELSE <<>>)
            \o <<CallStmt(sc.name, [i \in 1..sc.nargs |-> Num(i)])>>
      [] sc.id = "copy" ->
            <<SDecl({"x", "y"}),
              Var("a", SLiteral({"x", "y"}, "Number", sc.v1))>>
            \o (IF sc.form = "var" THEN <<Var("b", Variable("a"))>>
                ELSE <<Var("b", Literal(Nil)), Expression(Assign("b", Variable("a")))>>)
            \o <<Expression(Assign(sc.who, SLiteral({"x", "y"}, "Number", sc.v2)))>>
      [] sc.id = "eq" ->
            <<SDecl({"x", "y"}),
              FuncStmt("f", <<>>, Body("parsed", <<>>)),
              Var("v", KindExpr(sc.kind, sc.v1)),
              Expression(Binary(Variable("v"), sc.op, Variable("v")))>>
      [] sc.id = "literal" ->
            <<SDecl(sc.decl),
              Var("p", SLiteral(sc.lit, sc.kind, sc.v1)),
              Log(Str("built"))>>
      [] sc.id = "shadow" ->
            <<Var("x", Num(sc.v1))>>
            \o Wrap(sc.form, sc.d, <<Var("x", Num(sc.v2)), Log(Variable("x"))>>)
            \o <<Log(Variable("x"))>>
      [] sc.id = "mixed" ->
            <<Expression(Binary(IF sc.lt = "String" THEN Str(sc.s) ELSE Num(sc.n),
                                sc.op,
                                IF sc.rt = "String" THEN Str(sc.s) ELSE Num(sc.n)))>>
      [] sc.id = "failbody" ->
            <<Var("x", Num(0)),
              FuncStmt("f", <<>>, Body(sc.shape,
                  <<Expression(Assign("x", Num(1))), Expression(Failing(sc.how)),
                    Log(Str("after"))>>)),
              CallStmt("f", <<>>),
              Log(Str("next"))>>
      [] sc.id = "index" ->
            <<Var("a", ArrayExpr([j \in 1..sc.len |-> Str(Element(j - 1))])),
              Expression(Index(Variable("a"),
                  IF ~sc.numeric THEN (IF sc.i < 0 THEN Literal(Nil) ELSE Str("0"))
                  ELSE IF sc.i < 0 THEN Unary("Minus", Num(0 - sc.i))
                  ELSE Num(sc.i)))>>
      [] sc.id = "logical" ->
            <<Var("x", Str("unset")),
              Expression(Logical(Assign("x", Operand(sc.l, "NaN")), sc.op,
                                 Assign("x", Operand(sc.r, "undefined"))))>>
      [] sc.id = "branch" ->
            <<Var("c0", Str("unset")), Var("c1", Str("unset")), Var("c2", Str("unset")),
              IfStmt(Assign("c0", Operand(sc.p0, "")),
                     Block(<<Log(Str("then"))>>),
                     <<<<Assign("c1", Operand(sc.p1, "")), Block(<<Log(Str("elif1"))>>)>>,
                       <<Assign("c2", Operand(sc.p2, "")), Block(<<Log(Str("elif2"))>>)>>>>,
                     IF sc.els THEN <<Block(<<Log(Str("else"))>>)>> ELSE <<>>)>>
      [] sc.id = "module" ->
            IF sc.via = "node"
            THEN <<Expression(PreFunction(sc.M, sc.F, ModuleArgs(sc.F)))>>
            ELSE IF sc.M \in {"math", "io"} /\ check_type(sc.M, sc.F, ModuleArgs(sc.F)).ok
            THEN <<Expression(check_type(sc.M, sc.F, ModuleArgs(sc.F)).expr)>>
            ELSE <<>>
      [] sc.id = "fresh" ->
            <<FuncStmt("f", <<"p">>, Body(sc.shape,
                <<IfStmt(Binary(Variable("p"), "EqualEqual", Num(0)),
                         Block(<<Log(Variable("t"))>>),
                         <<>>,
                         <<Block(<<Var("t", Num(sc.v1))>>
                                 \o IF sc.mode = "nested"
                                    THEN <<CallStmt("f", <<Num(0)>>)>> ELSE <<>>)>>)>>)),
              CallStmt("f", <<Num(1)>>)>>
            \o (IF sc.mode = "caller" THEN <<Log(Variable(sc.which))>>
                ELSE IF sc.mode = "later" THEN <<CallStmt("f", <<Num(0)>>)>>
                ELSE <<>>)
      [] sc.id = "inc" ->
            <<Var("c", Num(0)),
              FuncStmt("inc", <<>>, Body(sc.shape,
                  <<Expression(Assign("c", Binary(Variable("c"), "Plus", Num(1))))>>))>>
            \o Wrap(sc.form, sc.d, <<CallStmt("inc", <<>>)>>)
      [] sc.id = "once" ->
            LET count == Expression(Assign("c", Binary(Variable("c"), "Plus", Num(1))))
                body == CASE sc.body = "empty" -> <<>>
                          [] sc.body = "count_last" -> <<Log(Str("a")), count>>
                          [] sc.body = "log_last" -> <<count, Log(Str("a"))>>
            IN  <<Var("c", Num(0)),
                  FuncStmt("f", <<>>, Body(sc.shape, body)),
                  IF sc.body = "empty" THEN CallStmt("f", <<>>)
                  ELSE Block(<<CallStmt("f", <<>>)>>)>>
      [] sc.id = "not" ->
            <<Var("v", CASE sc.operand = "zero" -> Num(0)
                         [] sc.operand = "one" -> Num(1)
                         [] sc.operand = "empty" -> Str("")
                         [] sc.operand = "text" -> Str("a")
                         [] sc.operand = "true" -> Literal(True)
                         [] sc.operand = "false" -> Literal(False)
                         [] sc.operand = "nil" -> Literal(Nil)
                         [] sc.operand = "array" -> ArrayExpr(<<Num(1)>>)),
              Expression(Unary("Bang", Variable("v")))>>
      [] sc.id = "noreturn" ->
            <<FuncStmt("f", <<>>, Body(sc.shape,
                  <<Var("t", Num(sc.v1)),
                    CASE sc.last = "expression" -> Expression(Variable("t"))
                      [] sc.last = "log" -> Log(Variable("t"))
                      [] sc.last = "var" -> Var("u", Variable("t"))
                      [] sc.last = "block" -> Block(<<Expression(Variable("t"))>>)>>)),
              CallStmt("f", <<>>)>>
      [] sc.id = "abort" ->
            <<Var("x", Num(0))>>
            \o Enclose(sc.form, sc.d,
                  <<Expression(Assign("x", Binary(Variable("x"), "Plus", Num(1)))),
                    Log(Str("before")),
                    Expression(Failing(sc.how)),
                    Log(Str("after")),
                    Expression(Assign("x", Num(9)))>>)
            \o <<Log(Str("later"))>>
      [] sc.id = "prompt" -> PromptLines(sc)[1]
      [] sc.id = "while" ->
            <<Var("counter", Num(0)),
              WhileStmt(Binary(Variable("counter"), "Less", Num(sc.v1)),
                        Block(<<Expression(Assign("counter",
                                  Binary(Variable("counter"), "Plus", Num(1))))>>
                              \o (IF sc.logs THEN <<Log(Variable("counter"))>>
                                  ELSE <<>>))),
              Expression(Variable("counter"))>>
      [] sc.id = "control" ->
            <<Var("i", Num(0)),
              WhileStmt(Binary(Variable("i"), "Less", Num(sc.v1)),
                        Block(<<Expression(Assign("i",
                            Binary(Variable("i"), "Plus", Num(1))))>>)),
              IfStmt(Binary(Variable("i"), "EqualEqual", Num(0)), Log(Str("zero")),
                     <<<<Binary(Variable("i"), "EqualEqual", Num(1)), Log(Str("one"))>>>>,
                     <<Log(Str("many"))>>),
              ReturnStmt(<<Variable("i")>>),
              Block(<<Var("i", Num(9)), Log(Variable("i"))>>),
              Log(Variable("i")),
              CallStmt("clock", <<>>),
              LoopStmt(Block(<<
                  Expression(Assign("i", Binary(Variable("i"), "Minus", Num(1)))),
                  IfStmt(Binary(Variable("i"), "Less", Num(0)),
                         CallStmt("stop", <<>>), <<>>, <<>>)>>))>>

\* Interpreter::new (interpreter.rs:24-35): the global scope holds clock.
Globals ==
    define(EnvironmentNew, "clock", Callable("clock", 0, <<>>, <<>>, TRUE), FALSE)

Init ==
    /\ EnvInit
    /\ FrontIdle
    /\ scenario \in Scenarios
    /\ program = Program(scenario)
    /\ pc = 1
    /\ heap = <<Globals>>
    /\ out = <<>>
    /\ status = "ok"
    /\ error = ""
    /\ value = Nil
    /\ environment = 1
    /\ line = 1

\* The machine a top-level statement starts on.
Machine ==
    [h |-> heap, out |-> out, fuel |-> MaxFuel, ord |-> scenario.ord, now |-> scenario.now,
     cur |-> environment]

\* interpret is at statement pc of the list and that statement is a `kind`.
At(kind) ==
    /\ status = "ok"
    /\ pc <= Len(program)
    /\ program[pc].k = kind

\* What a top-level statement leaves behind.  The scopes it created are
\* dropped when it returns, unless the Interpreter still refers to one.
Leave(r, v) ==
    /\ heap' = IF r.m.cur = 1 THEN <<r.m.h[1]>> ELSE r.m.h
    /\ environment' = r.m.cur
    /\ out' = r.m.out
    /\ status' = r.st
    /\ error' = r.err
    /\ value' = v
    /\ pc' = pc + 1
    /\ UNCHANGED <<scenario, program, line, envs, call, frontVars>>

ExecExpression ==
    /\ At("Expression")
    /\ LET r == call_evaluate(program[pc].expression, environment, Machine) IN
       Leave(r, IF r.st = "ok" THEN r.v ELSE value)

ExecLog == At("Log") /\ Leave(call_execute(program[pc], environment, Machine), value)

ExecVar == At("Var") /\ Leave(call_execute(program[pc], environment, Machine), value)

ExecBlock == At("Block") /\ Leave(call_execute(program[pc], environment, Machine), value)

ExecIf == At("IfStmt") /\ Leave(call_execute(program[pc], environment, Machine), value)

ExecWhile == At("WhileStmt") /\ Leave(call_execute(program[pc], environment, Machine), value)

ExecLoop == At("LoopStmt") /\ Leave(call_execute(program[pc], environment, Machine), value)

ExecReturn == At("ReturnStmt") /\ Leave(call_execute(program[pc], environment, Machine), value)

ExecFunc == At("FuncStmt") /\ Leave(call_execute(program[pc], environment, Machine), value)

ExecStruct == At("StructStmt") /\ Leave(call_execute(program[pc], environment, Machine), value)

\* run_prompt (main.rs:40-68): run has returned, with Ok or with an Err
\* that is printed, and the next line is run on the same Interpreter.
PromptLine ==
    /\ scenario.id = "prompt"
    /\ pc > Len(program) \/ status = "err"
    /\ status \in {"ok", "err"}
    /\ line < Len(PromptLines(scenario))
    /\ line' = line + 1
    /\ program' = PromptLines(scenario)[line + 1]
    /\ pc' = 1
    /\ status' = "ok"
    /\ error' = ""
    /\ UNCHANGED <<scenario, heap, out, value, environment, envs, call, frontVars>>

Next ==
    \/ PromptLine
    \/ ExecExpression
    \/ ExecLog
    \/ ExecVar
    \/ ExecBlock
    \/ ExecIf
    \/ ExecWhile
    \/ ExecLoop
    \/ ExecReturn
    \/ ExecFunc
    \/ ExecStruct

Spec == Init /\ [][Next]_vars

\* No program is run: the state of the interpreter in the runs of the
\* other specifications.
RunIdle ==
    /\ scenario = [id |-> "none", ord |-> DefaultOrder, now |-> 0]
    /\ program = <<>>
    /\ pc = 1
    /\ heap = <<Globals>>
    /\ out = <<>>
    /\ status = "ok"
    /\ error = ""
    /\ value = Nil
    /\ environment = 1
    /\ line = 1

EnvSpecInit ==
    /\ EnvInit
    /\ FrontIdle
    /\ RunIdle

EnvSpec == EnvSpecInit /\ [][EnvNext]_vars

(***************************************************************************)
(* FrontSpec: run (main.rs:29-38) up to the parsed statements.  The source *)
(* is scanned one token per step, then parsed one statement per step.      *)
(***************************************************************************)
\* The chars the scanned texts are made of: a digit, a letter, a quote, a
\* char no token starts with, a char of two bytes, a blank and a newline.
ScanChars == {"1", "a", "\"", "@", "é", " ", "\n"}
ScanSources == UNION {[1..n -> ScanChars] : n \in 0..MaxSrc}

\* Expressions: operands joined by operators, closed by ';'.
Operands == {<<"1">>, <<"(", "1", "=", "=", "1", ")">>}
Operators == {<<"+">>, <<"=", "=">>, <<"!", "=">>, <<"<">>}

RECURSIVE ExprTexts(_)
ExprTexts(n) ==
    IF n = 0 THEN Operands
    ELSE {t \o o \o x : t \in ExprTexts(n - 1), o \in Operators, x \in Operands}

ExprSources == {t \o <<";">> : t \in UNION {ExprTexts(n) : n \in 0..MaxOps}}

\* The sources of the parser's tests (parser.rs:640, 679, 691).
Test_addition == <<"4", " ", "+", " ", "3", ";">>
Test_comparison ==
    <<"1", " ", "+", " ", "2", " ", "=", "=", " ", "5", " ", "+", " ", "7", ";">>
Test_eq_paren == <<"1", " ", "=", "=", " ", "(", "3", " ", "+", " ", "5", ")", ";">>

Sources == ScanSources \cup ExprSources \cup {Test_addition, Test_comparison, Test_eq_paren}

FrontInit ==
    /\ EnvInit
    /\ RunIdle
    /\ source \in Sources
    /\ scanner = Scanner_new
    /\ parser = NoParser

\* One turn of the loop of scan_tokens.
ScanToken ==
    /\ scanner.st = "run"
    /\ ~Scanner_is_at_end(source, scanner)
    /\ scanner' = scan_tokens_step(source, scanner)
    /\ UNCHANGED <<source, parser, envVars, runVars>>

\* The loop of scan_tokens has ended: the Eof token is pushed and
\* scan_tokens returns.
ScanEof ==
    /\ scanner.st = "run"
    /\ Scanner_is_at_end(source, scanner)
    /\ scanner' = scan_tokens_end(scanner)
    /\ UNCHANGED <<source, parser, envVars, runVars>>

\* run hands the tokens scan_tokens returned to Parser::new.
ParserNew ==
    /\ scanner.st = "ok"
    /\ parser.st = "idle"
    /\ parser' = [st |-> "run", p |-> Parser_new(scanner.tokens), stmts |-> <<>>,
                  errs |-> <<>>, result |-> ""]
    /\ UNCHANGED <<source, scanner, envVars, runVars>>

\* One turn of the loop of parse (parser.rs:41-50).
ParseDeclaration ==
    /\ parser.st = "run"
    /\ ~Parser_is_at_end(parser.p)
    /\ LET r == declaration(parser.p) IN
       parser' = IF r.ok THEN [parser EXCEPT !.p = r.p, !.stmts = Append(@, r.expr)]
                 ELSE [parser EXCEPT !.p = sync(r.p), !.errs = Append(@, r.err)]
    /\ UNCHANGED <<source, scanner, envVars, runVars>>

\* The end of parse (parser.rs:52-56).
ParseEnd ==
    /\ parser.st = "run"
    /\ Parser_is_at_end(parser.p)
    /\ parser' = IF parser.errs = <<>> THEN [parser EXCEPT !.st = "ok"]
                 ELSE [parser EXCEPT !.st = "err", !.result = JoinLines(parser.errs)]
    /\ UNCHANGED <<source, scanner, envVars, runVars>>

FrontNext ==
    \/ ScanToken
    \/ ScanEof
    \/ ParserNew
    \/ ParseDeclaration
    \/ ParseEnd

FrontSpec == FrontInit /\ [][FrontNext]_vars

\* interpret has returned: every statement ran, or one failed.
Done == pc > Len(program) \/ status # "ok"

(***************************************************************************)
(* The claims.  Those about programs are stated over the runs of Spec,     *)
(* those about the Environment API over the runs of EnvSpec.               *)
(***************************************************************************)
\* The global scope's binding of name (the global scope is heap[1]).
Global(name) == heap[1].values[name]

Bound(name) == name \in DOMAIN heap[1].values

\* The scope whose binding of name a lookup from scope e finds, 0 if none.
RECURSIVE Binder(_, _, _)
Binder(h, e, name) ==
    IF name \in DOMAIN h[e].values THEN e
    ELSE IF h[e].enclosing # 0 THEN Binder(h, h[e].enclosing, name)
    ELSE 0

\* C1: a function's free variable x is resolved through the scopes of its
\* declaration (the global scope), never through the call site: in
\*   var x = v1; fn f() { log(x) | x = w }  { .. { var x = v2; f(); log(x) } .. }  log(x)
\* with the call nested d >= 1 blocks deep, f reads the global x (v1) and
\* writes the global x, and the call site's x stays v2; with d = 0 the
\* call-site x is the global x itself.
C1_ClosureUsesDefiningScope ==
    (scenario.id = "closure" /\ Done) =>
        LET v1 == NumToString(scenario.v1)
            v2 == NumToString(scenario.v2)
            w == NumToString(scenario.v1 + scenario.v2 + 1)
        IN /\ status = "ok"
           /\ scenario.act = "read" =>
                out = IF scenario.d = 0 THEN <<v2, v2, v2>> ELSE <<v1, v2, v1>>
           /\ scenario.act = "write" =>
                out = IF scenario.d = 0 THEN <<w, w>> ELSE <<v2, w>>

\* C2: a Return executed in a function body ends the call with the returned
\* value: in  fn f() { <return v1, nested d deep in blocks, branches or
\* loops>; log("after") }  f()  nothing is printed and f() is v1.
C2_ReturnEndsTheCall ==
    (scenario.id = "return" /\ Done) =>
        /\ status = "ok"
        /\ out = <<>>
        /\ value = Number(scenario.v1)

\* C3: fn add(a, b) { return a + b; }  add(x, y) evaluates to Number(x + y);
\* add(5, 3) is Number(8).
C3_AddReturnsTheSum ==
    (scenario.id = "add" /\ Done) =>
        /\ status = "ok"
        /\ value = Number(scenario.v1 + scenario.v2)

\* C4: when the first binding of n found from scope e is flagged constant,
\* assign(n, w) on e returns false and changes no scope, so a following
\* get(n) returns what it returned before.
C4_AssignToConstantFails ==
    [][(call'.op = "assign") =>
          LET e == call'.e
              n == call'.n
              b == Binder(envs, e, n)
          IN (b # 0 /\ n \in DOMAIN envs[b].constants /\ envs[b].constants[n]) =>
                /\ call'.ret = FALSE
                /\ envs' = envs
                /\ get(envs', e, n) = Some(envs[b].values[n])]_vars

\* A failed assign of a value other than the constant's, through a scope
\* that does not bind the name itself.
C4_Witness ==
    /\ call.op = "assign"
    /\ call.ret = FALSE
    /\ LET b == Binder(envs, call.e, call.n) IN
         /\ b # 0
         /\ b # call.e
         /\ call.n \in DOMAIN envs[b].constants
         /\ envs[b].values[call.n] # call.v

\* C5: a call of f, declared with `arity` parameters, with nargs # arity
\* arguments fails with "Callable f expected <arity> arguments but got
\* <nargs>", prints nothing (the body did not run) and leaves every binding
\* as it was (no argument, each an assignment to c, was evaluated).
C5_ArityMismatchHasNoEffect ==
    [][(scenario.id = "arity" /\ scenario.arity # scenario.nargs
            /\ pc = 3 /\ pc' = 4) =>
          /\ status' = "err"
          /\ error' = "Callable f expected " \o NumToString(scenario.arity)
                        \o " arguments but got " \o NumToString(scenario.nargs)
          /\ out' = out
          /\ heap' = heap]_vars

\* A call with too many arguments, each of which would have changed c.
C5_Witness ==
    /\ scenario.id = "arity"
    /\ scenario.nargs > scenario.arity
    /\ pc = 4
    /\ status = "err"
    /\ Global("c") = Number(0)

\* C6: a call whose callee is a name bound in no scope fails with
\* '<name>' is not callable.
C6_UnboundCalleeIsNotCallable ==
    (scenario.id = "callee" /\ ~scenario.bound /\ Done) =>
        /\ status = "err"
        /\ error = "'" \o scenario.name \o "' is not callable"

\* C7: after var a = S{..}; var b = a (or b = a) the value under b equals
\* the value under a, and overwriting the instance under one of them with
\* an instance of other field values leaves the value under the other as it
\* was.
C7_StructCopy ==
    [][(scenario.id = "copy" /\ status = "ok" /\ pc = Len(program) /\ pc' = pc + 1) =>
          LET who == scenario.who
              other == IF who = "a" THEN "b" ELSE "a"
          IN /\ Global("a").t = "StructInst"
             /\ Global("b") = Global("a")
             /\ status' = "ok"
             /\ heap'[1].values[who] =
                    StructInst("S", [f \in {"x", "y"} |-> Number(scenario.v2)])
             /\ heap'[1].values[other] = heap[1].values[other]]_vars

\* b was made by the assignment b = a, then a was given other field values.
C7_Witness ==
    /\ scenario.id = "copy"
    /\ scenario.form = "assign"
    /\ scenario.who = "a"
    /\ pc = Len(program) + 1
    /\ status = "ok"
    /\ Global("a").fields["x"] # Global("b").fields["x"]

\* C8: for a value v of every variant, v == v is True and v != v is False.
C8_EqualityIsReflexive ==
    (scenario.id = "eq" /\ Done) =>
        /\ status = "ok"
        /\ value = IF scenario.op = "EqualEqual" THEN True ELSE False

\* C9: a struct literal yields an instance only when its field names are
\* exactly the declared ones, and then the instance has exactly these
\* fields; a literal that omits a declared field or supplies an undeclared
\* one fails with an error and yields no instance.
C9_LiteralHasTheDeclaredFields ==
    (scenario.id = "literal" /\ pc > 2) =>
        /\ Bound("p") =>
             /\ Global("p").t = "StructInst"
             /\ DOMAIN Global("p").fields = DOMAIN Global("S").fields
        /\ scenario.lit # scenario.decl => (status = "err" /\ ~Bound("p"))

\* C10: define(n, v) on a scope followed by get(n) on it returns v.
C10_DefineThenGet ==
    (call.op = "define") => get(envs, call.e, call.n) = Some(call.v)

\* A define that shadows a binding of another value in an enclosing scope.
C10_Witness ==
    /\ call.op = "define"
    /\ envs[call.e].enclosing # 0
    /\ LET b == Binder(envs, envs[call.e].enclosing, call.n) IN
         b # 0 /\ envs[b].values[call.n] # call.v

\* C11: get(n) on a scope that does not bind n itself returns what get(n)
\* on its enclosing scope returns, None included.
C11_GetDelegates ==
    (/\ call.op = "get"
     /\ envs[call.e].enclosing # 0
     /\ call.n \notin DOMAIN envs[call.e].values) =>
        call.ret = get(envs, envs[call.e].enclosing, call.n)

\* A get on an inner scope answered by a binding of the enclosing scope.
C11_Witness ==
    /\ call.op = "get"
    /\ envs[call.e].enclosing # 0
    /\ call.n \notin DOMAIN envs[call.e].values
    /\ call.ret.some

\* C12: in  var x = v1; { .. { var x = v2; log(x); } .. }  log(x);  the
\* block prints v2 and leaves the outer x as it was, and the log after it
\* prints v1.
C12_BlockShadows ==
    [][(scenario.id = "shadow" /\ pc = 2 /\ pc' = 3) =>
          /\ status' = "ok"
          /\ out' = <<NumToString(scenario.v2)>>
          /\ heap'[1].values["x"] = Number(scenario.v1)
          /\ heap' = heap]_vars
    /\ [](scenario.id = "shadow" /\ Done =>
            out = <<NumToString(scenario.v2), NumToString(scenario.v1)>>)

\* The run of var x = 1; { var x = 2; log(x); } log(x); has ended.
C12_Witness ==
    /\ scenario.id = "shadow"
    /\ scenario.form = "block"
    /\ scenario.d = 1
    /\ scenario.v1 = 1
    /\ scenario.v2 = 2
    /\ pc = 4
    /\ out = <<"2", "1">>

\* C13: var counter = 0; while (counter < n) { counter = counter + 1; }
\* counter;  ends with counter = n, the body having run exactly n times
\* (a body that logs counter prints 1, .., n); with n = 3, Number(3).
C13_WhileCounts ==
    [][(scenario.id = "while" /\ pc = 2 /\ pc' = 3) =>
          /\ status' = "ok"
          /\ heap'[1].values["counter"] = Number(scenario.v1)
          /\ scenario.logs => out' = [i \in 1..scenario.v1 |-> NumToString(i)]]_vars
    /\ [](scenario.id = "while" /\ Done =>
            status = "ok" /\ value = Number(scenario.v1))

\* The loop to 3 has ended, its body having logged 1, 2, 3.
C13_Witness ==
    /\ scenario.id = "while"
    /\ scenario.v1 = 3
    /\ scenario.logs
    /\ pc = 4
    /\ out = <<"1", "2", "3">>
    /\ value = Number(3)

RECURSIVE SubExprs(_)
SubExprs(x) ==
    {x} \cup
    CASE x.k \in {"Binary", "Logical"} -> SubExprs(x.left) \cup SubExprs(x.right)
      [] x.k = "Grouping" -> SubExprs(x.expression)
      [] x.k = "Unary" -> SubExprs(x.right)
      [] x.k = "Assign" -> SubExprs(x.value)
      [] x.k = "Call" ->
            SubExprs(x.callee)
            \cup UNION {SubExprs(x.arguments[i]) : i \in 1..Len(x.arguments)}
      [] OTHER -> {}

\* Every expression of the statements parsed so far.
ParsedExprs ==
    IF parser.st = "idle" THEN {}
    ELSE UNION {SubExprs(parser.stmts[i].expression) : i \in 1..Len(parser.stmts)}

IsEquality(x) == x.k = "Binary" /\ x.op \in {"EqualEqual", "BangEqual"}
IsComparison(x) ==
    x.k = "Binary" /\ x.op \in {"Greater", "GreaterEqual", "Less", "LessEqual"}
IsArithmetic(x) == x.k = "Binary" /\ x.op \in {"Plus", "Minus", "Star", "Slash"}

\* An additive expression: what term parses, sums and differences of
\* factors.  Its top node is no ==, !=, <, <=, >, >=, and, or, = node.
IsAdditive(x) == IsArithmetic(x) \/ x.k \in {"Literal", "Variable", "Grouping", "Unary", "Call"}

\* parse has returned.
Parsed == parser.st \in {"ok", "err"}

\* Stmt::to_string of the i-th parsed statement (stmt.rs:44).
StmtText(i) == expr_to_string(parser.stmts[i].expression, DefaultOrder)

\* The three sources the claim names parse to the texts it gives.
Examples ==
    /\ (source \in {Test_addition, Test_comparison, Test_eq_paren} /\ scanner.st # "run")
          => scanner.st = "ok"
    /\ (source \in {Test_addition, Test_comparison, Test_eq_paren} /\ Parsed) =>
          /\ parser.st = "ok"
          /\ Len(parser.stmts) = 1
          /\ source = Test_addition => StmtText(1) = "(+ 4 3)"
          /\ source = Test_comparison => StmtText(1) = "(== (+ 1 2) (+ 5 7))"
          /\ source = Test_eq_paren => StmtText(1) = "(== 1 (group (+ 3 5)))"

\* No sum, difference, product or quotient has an ==, !=, <, <=, >, >= node
\* as an operand, and no comparison has an == or != node as one: outside
\* parentheses an operand of == or != is never a part of a larger additive
\* expression.
OperandsAreWhole ==
    \A x \in ParsedExprs :
        /\ IsArithmetic(x) =>
              \A y \in {x.left, x.right} : ~IsEquality(y) /\ ~IsComparison(y)
        /\ IsComparison(x) => ~IsEquality(x.left) /\ ~IsEquality(x.right)

\* C15 as the claim states it: `1 + 2 == 5 + 7;` parses to
\* (== (+ 1 2) (+ 5 7)), `1 == (3 + 5);` to (== 1 (group (+ 3 5))), `4 + 3;`
\* to (+ 4 3), and both operands of every == or != node are complete
\* additive expressions.
C15_OperandsAreAdditive ==
    /\ Examples
    /\ OperandsAreWhole
    /\ \A x \in ParsedExprs : IsEquality(x) => IsAdditive(x.left) /\ IsAdditive(x.right)

\* C15, amended: the three sources parse as the claim says, and every
\* operand of an == or != node is a complete expression of the next level
\* down: an additive expression or a chain of <, <=, >, >= over additive
\* expressions; the left operand alone may also be the == or != node before
\* it in a chain (1 == 1 == 1 is (== (== 1 1) 1)).
C15_OperandsAreComparisons ==
    /\ Examples
    /\ OperandsAreWhole
    /\ \A x \in ParsedExprs :
          IsEquality(x) =>
              /\ IsAdditive(x.right) \/ IsComparison(x.right)
              /\ IsAdditive(x.left) \/ IsComparison(x.left) \/ IsEquality(x.left)

\* `1 + 2 == 5 + 7;` has been parsed to (== (+ 1 2) (+ 5 7)).
C15_Witness ==
    /\ source = Test_comparison
    /\ parser.st = "ok"
    /\ StmtText(1) = "(== (+ 1 2) (+ 5 7))"

\* The chars scan_token has no arm for.
Unrecognized(c) ==
    c \notin (DOMAIN OneChar \cup {"#", "!", "=", "<", ">", " ", "\r", "\t", "\n", "\""}
              \cup Digits \cup Alphas)

\* The position of the first char c at or after position i, Len + 1 if none.
RECURSIVE Find(_, _, _)
Find(src, c, i) ==
    IF i > Len(src) \/ src[i] = c THEN i ELSE Find(src, c, i + 1)

\* The token-level failures of a source from position i on, read off the
\* text: an unrecognized char outside strings and comments, and a string
\* that is never closed.
RECURSIVE Failures(_, _)
Failures(src, i) ==
    IF i > Len(src) THEN 0
    ELSE IF src[i] = "\""
         THEN IF Find(src, "\"", i + 1) > Len(src) THEN 1
              ELSE Failures(src, Find(src, "\"", i + 1) + 1)
    ELSE IF src[i] = "#" THEN Failures(src, Find(src, "\n", i + 1))
    ELSE IF Unrecognized(src[i]) THEN 1 + Failures(src, i + 1)
    ELSE Failures(src, i + 1)

\* C16: scan_tokens returns, and returns an error exactly when the source
\* has a token-level failure; every failure is reported, so the scan went
\* on after each one; and the token list ends with the only Eof token.
C16_ScanErrorsExactly ==
    scanner.st # "run" =>
        /\ scanner.st \in {"ok", "err"}
        /\ scanner.st = "err" <=> Failures(source, 1) > 0
        /\ Len(scanner.errors) = Failures(source, 1)
        /\ Len(scanner.tokens) >= 1
        /\ \A i \in 1..Len(scanner.tokens) :
              scanner.tokens[i].token_type = "Eof" <=> i = Len(scanner.tokens)

\* C17: when a statement of a called function's body fails, the call fails
\* with that error: the statement holding the call does not complete.
C17_BodyErrorFailsTheCall ==
    (scenario.id = "failbody" /\ pc > 3) =>
        /\ pc = 4
        /\ status = "err"
        /\ error = FailingError(scenario.how)

\* C18: the first failing statement of a list aborts the list, the lists
\* of the blocks, branches and loops around it and the loop itself:
\* interpret returns its error, nothing after it has run (no "after",
\* "enclosing" or "later" line, no second iteration), and what ran before
\* it is kept (the line "before", x = 1).  The same holds of the list that
\* is a function's body.
C18_FirstFailureAborts ==
    \* the top-level statement that fails: the failing one itself when it is
    \* nested in nothing, else the statement it is nested in
    /\ LET failing == IF scenario.d = 0 THEN 4 ELSE 2 IN
       (scenario.id = "abort" /\ pc > failing) =>
           /\ pc = failing + 1
           /\ status = "err"
           /\ error = FailingError(scenario.how)
           /\ out = <<"before">>
           /\ Global("x") = Number(1)
    \* in a function body, the statement after the failing one never runs
    /\ scenario.id = "failbody" =>
           \A i \in 1..Len(out) : out[i] # "after"

\* A statement two while bodies deep has failed.
C18_Witness ==
    /\ scenario.id = "abort"
    /\ scenario.form = "while"
    /\ scenario.d = 2
    /\ pc = 3
    /\ status = "err"
    /\ out = <<"before">>

\* C19: after every top-level statement, a Block that completed or failed
\* included, the Interpreter's environment is the global scope again; at
\* the prompt, the line after one that ended or failed inside nested blocks
\* declares its variable z in the global scope and prints it, and the
\* block's own variable y is not bound for the third line.
C19_BlockRestoresEnvironment ==
    /\ environment = 1
    /\ (scenario.id = "prompt" /\ line = 2 /\ pc > 2) =>
          /\ status = "ok"
          /\ Len(heap) = 1
          /\ Bound("z")
          /\ Global("z") = Number(scenario.v1)
          /\ out = <<NumToString(scenario.v1)>>
    /\ (scenario.id = "prompt" /\ line = 3 /\ pc > 1) =>
          /\ status = "err"
          /\ error = "Undefined variable or function 'y'."

\* The line after one that failed two blocks deep has run in the global
\* scope.
C19_Witness ==
    /\ scenario.id = "prompt"
    /\ scenario.fails
    /\ scenario.d = 2
    /\ line = 2
    /\ pc = 3
    /\ Bound("z")

\* C20: a call of a function whose body executes no return evaluates to Nil,
\* whatever the body's last statement is: an expression statement, a log, a
\* declaration or a block.
C20_NoReturnGivesNil ==
    (scenario.id = "noreturn" /\ Done) =>
        /\ status = "ok"
        /\ value = Nil

\* C21: for a value v that is not a Callable, !v never fails and is True
\* exactly when v is not truthy, False exactly when v is truthy.
C21_BangNegatesTruthiness ==
    (scenario.id = "not" /\ pc > 1 /\ Done) =>
        /\ status = "ok"
        /\ HasTruth(Global("v"))
        /\ value = IF is_truthy(Global("v")) = True THEN False ELSE True

\* C22: for an array of length L, a[i] with a numeric i is the element at
\* position i when 0 <= i < L and the error "Array index out of bounds"
\* otherwise, negative i included; a non-numeric index is an error; the
\* access never aborts.
C22_IndexInRangeOrError ==
    (scenario.id = "index" /\ pc > 1 /\ Done) =>
        IF scenario.numeric /\ 0 <= scenario.i /\ scenario.i < scenario.len
        THEN /\ status = "ok"
             /\ value = StringValue(Element(scenario.i))
        ELSE /\ status = "err"
             /\ scenario.numeric => error = "Array index out of bounds"

\* C23: `l or r` and `l and r` evaluate l, then r, whatever l is: the effect
\* of r occurs (x holds the value r assigned) and an error of r is returned;
\* when both succeed the result is True or False: `or` is True iff l or r
\* is truthy, `and` is True iff both are.
C23_BothOperandsEvaluated ==
    LET Truthy(kind) == kind \in {"true", "text"}
        Known(kind) == kind # "array"
    IN
    (scenario.id = "logical" /\ pc > 1 /\ Done) =>
        IF scenario.l = "error"
        THEN /\ status = "err" /\ error = FailingError("NaN")
             /\ Global("x") = StringValue("unset")
        ELSE IF scenario.r = "error"
        THEN /\ status = "err" /\ error = FailingError("undefined")
             /\ Global("x") = OperandValue(scenario.l)
        ELSE /\ status = "ok"
             /\ Global("x") = OperandValue(scenario.r)
             /\ value \in {True, False}
             /\ (Known(scenario.l) /\ Known(scenario.r)) =>
                   (value = True) =
                      IF scenario.op = "Or"
                      THEN Truthy(scenario.l) \/ Truthy(scenario.r)
                      ELSE Truthy(scenario.l) /\ Truthy(scenario.r)
             /\ (scenario.op = "Or" /\ (Truthy(scenario.l) \/ Truthy(scenario.r)))
                   => value = True
             /\ (scenario.op = "And" /\ Known(scenario.l) /\ ~Truthy(scenario.l))
                   => value = False

\* C24: an if / elif / else executes at most one branch: the then branch
\* when the predicate is truthy, else the body of the first elif whose
\* predicate is truthy, else the else branch when there is one; no elif
\* predicate after the one that matched is evaluated, and none at all when
\* the if predicate is truthy.
C24_AtMostOneBranch ==
    LET Truthy(kind) == kind \in {"true", "text"}
        Unset == StringValue("unset")
    IN
    (scenario.id = "branch" /\ pc > 4) =>
        /\ status = "ok"
        /\ Len(out) <= 1
        /\ Global("c0") = OperandValue(scenario.p0)
        /\ IF Truthy(scenario.p0)
           THEN out = <<"then">> /\ Global("c1") = Unset /\ Global("c2") = Unset
           ELSE /\ Global("c1") = OperandValue(scenario.p1)
                /\ IF Truthy(scenario.p1)
                   THEN out = <<"elif1">> /\ Global("c2") = Unset
                   ELSE /\ Global("c2") = OperandValue(scenario.p2)
                        /\ out = IF Truthy(scenario.p2) THEN <<"elif2">>
                                 ELSE IF scenario.els THEN <<"else">>
                                 ELSE <<>>

\* The first elif matched though the second predicate is truthy too.
C24_Witness ==
    /\ scenario.id = "branch"
    /\ scenario.p0 = "nil"
    /\ scenario.p1 = "text"
    /\ scenario.p2 = "true"
    /\ scenario.els
    /\ pc = 5
    /\ out = <<"elif1">>

C29_LatestDefinitionDecides ==
    [][(/\ call.op = "define" /\ call.c = FALSE
        /\ call'.op = "assign" /\ call'.e = call.e /\ call'.n = call.n) =>
          /\ call'.ret = TRUE
          /\ get(envs', call'.e, call'.n) = Some(call'.v)]_vars

\* C26: the call M.F(args) in source runs the native function F of module M
\* on the argument values: every (module, name) pair a check_type puts into
\* a PreFunction node is one the evaluator maps to the native function of
\* the name written in the source; a node whose pair the evaluator does not
\* know yields an error.
C26_ModuleCallRunsTheNamedNative ==
    (scenario.id = "module" /\ pc > 1) =>
        IF scenario.via = "source"
        THEN /\ status = "ok"
             /\ value.t = "Native"
             /\ value.fn = "rcn_" \o scenario.M \o "::" \o scenario.F
        ELSE status = "err" <=>
                ~(\/ scenario.M = "math" /\ scenario.F \in DOMAIN MathHelpers
                  \/ scenario.M = "io" /\ scenario.F \in {"read_input", "file_open"})

\* C27: what one invocation binds (its parameter p, the variable t its body
\* declares) is bound neither at the caller after the call, nor in a later
\* invocation, nor in an invocation nested in it: a log(t) in such an
\* invocation prints nothing, a log of p or t after the call is an error.
C27_InvocationScopeIsFresh ==
    (scenario.id = "fresh" /\ Done) =>
        /\ out = <<>>
        /\ scenario.mode = "caller" =>
              /\ status = "err"
              /\ error = "Undefined variable or function '" \o scenario.which \o "'."

\* C28: in  var c = 0; fn inc() { c = c + 1; }  the value of c after the
\* call inc() is 1, whether the call is made at the top level or from inside
\* nested blocks.
C28_AssignmentReachesOuterScope ==
    (scenario.id = "inc" /\ Done) =>
        /\ status = "ok"
        /\ Global("c") = Number(1)

\* C30: one call of a function executes each statement of its body once, in
\* order, and does not abort: after a call of a body made of a log and of
\* c = c + 1, one line is printed and c is 1, also when the assignment is
\* the trailing expression statement; a call of a function with an empty
\* body completes with Nil.
C30_BodyRunsOnce ==
    (scenario.id = "once" /\ pc > 3) =>
        /\ status = "ok"
        /\ IF scenario.body = "empty"
           THEN value = Nil /\ out = <<>> /\ Global("c") = Number(0)
           ELSE out = <<"a">> /\ Global("c") = Number(1)

====
